---- MODULE Spec2Model ----
(***************************************************************************)
(* Verification model of sjmb, an IRC bot.                                 *)
(*                                                                         *)
(*  - src/src/ircbot.rs    : IrcBot::run, the handler registry, reload and *)
(*                           the message handlers that fill the two queues *)
(*                                             -> specification Spec       *)
(*  - src/src/ircbot.rs    : new_op / new_msg, the two throttled queue     *)
(*                           consumers and the enrichment jobs they run    *)
(*                                             -> specification SpecQueue  *)
(*  - src/src/bin/sjmb.rs  : the stand-alone main loop that talks to the   *)
(*                           transport itself  -> specification SpecMain   *)
(*  - src/src/util.rs      : ReAcl / ReMut / get_wild pure functions       *)
(*                                             -> specification SpecAcl    *)
(*                                                                         *)
(* The dispatcher and the consumers share nothing but the two channels:    *)
(* Spec keeps what run puts on them, SpecQueue feeds them with any item.   *)
(*                                                                         *)
(* A Rust String is a sequence of one-character strings.  A chat text is   *)
(* a sequence of tokens: maximal whitespace-free words and, between them,  *)
(* single whitespace characters (the token WS).                            *)
(***************************************************************************)
EXTENDS Integers, Sequences, FiniteSets, TLC

\* ------------------------------------------------------------------------
\* Bounds of the model
\* ------------------------------------------------------------------------

\* longest ACL rule list explored by SpecAcl
MaxAclLen == 3

\* ------------------------------------------------------------------------
\* Option / Result values
\* ------------------------------------------------------------------------

None == [some |-> FALSE]

Some(v) == [some |-> TRUE, val |-> v]

\* ------------------------------------------------------------------------
\* regex::Regex, restricted to literal characters, the wildcard "." and a
\* leading anchor "^".  A pattern holding "(" does not compile (unbalanced
\* group).  is_match is an unanchored search, as in the regex crate.
\* ------------------------------------------------------------------------

RegexCompiles(p) == \A i \in 1..Len(p) : p[i] # "("

MatchesAt(body, s, off) ==
    /\ off + Len(body) <= Len(s)
    /\ \A i \in 1..Len(body) : body[i] = "." \/ body[i] = s[off + i]

IsMatch(p, s) ==
    IF Len(p) > 0 /\ Head(p) = "^"
    THEN MatchesAt(Tail(p), s, 0)
    ELSE \E off \in 0..Len(s) : MatchesAt(p, s, off)

\* ------------------------------------------------------------------------
\* ReAcl (util.rs)
\* ------------------------------------------------------------------------

\* ReAcl::new: every rule is compiled, the first one that does not compile
\* fails the construction; rule order is kept.
ReAclNew(list) ==
    IF \A i \in 1..Len(list) : RegexCompiles(list[i])
    THEN [ok |-> TRUE, acl_str |-> list, acl_re |-> list]
    ELSE [ok |-> FALSE]

RECURSIVE ReMatchLast(_, _, _)
ReMatchLast(acl, text, i) ==
    IF i < 1 THEN None
    ELSE IF IsMatch(acl.acl_re[i], text)
         THEN Some(<<i - 1, acl.acl_str[i]>>)
         ELSE ReMatchLast(acl, text, i - 1)

\* a scan that starts from the end of the list
ReMatchFromEnd(acl, text) == ReMatchLast(acl, text, Len(acl.acl_re))

RECURSIVE ReMatchFrom(_, _, _)
ReMatchFrom(acl, text, i) ==
    IF i > Len(acl.acl_re) THEN None
    ELSE IF IsMatch(acl.acl_re[i], text)
         THEN Some(<<i - 1, acl.acl_str[i]>>)
         ELSE ReMatchFrom(acl, text, i + 1)

\* ReAcl::re_match: (zero-based index, rule text) of the first matching rule
ReMatch(acl, text) == ReMatchFrom(acl, text, 1)

\* ------------------------------------------------------------------------
\* Universe of SpecAcl
\* ------------------------------------------------------------------------

Users == {<<"a">>, <<"b">>}

Hosts == {<<"h">>, <<"g">>}

NoneStr == <<"N", "O", "N", "E">>

\* format!("{msg_user}@{msg_host}")
UserHost(user, host) == user \o <<"@">> \o host

Identities == {UserHost(u, h) : u \in Users, h \in Hosts} \cup {UserHost(NoneStr, NoneStr)}

BadPattern == <<"(">>

GoodPatterns == {<<"a", "@">>, <<"@", "h">>, <<"^", "b">>, <<".", "@", "g">>}

AclPatterns == GoodPatterns \cup {BadPattern}

SeqsUpTo(S, n) == UNION {[1..k -> S] : k \in 0..n}

\* names for the strings of the model
WS == <<" ">>

Star == <<"*">>

Bot == <<"b", "o", "t">>

Bot2 == <<"b", "o", "t", "2">>

Alice == <<"a", "l">>

Bob == <<"b", "o">>

ChanA == <<"#", "a">>

ChanB == <<"#", "b">>

U1 == <<"h", "t", "t", "p", ":", "1">>

U2 == <<"h", "t", "t", "p", "s", ":", "2">>

\* ------------------------------------------------------------------------
\* Chat texts
\* ------------------------------------------------------------------------

RECURSIVE Flatten(_)
\* the String a token sequence stands for
Flatten(toks) == IF toks = << >> THEN << >> ELSE Head(toks) \o Flatten(Tail(toks))

WsPositions(text) == {i \in 1..Len(text) : text[i] = WS}

FirstWs(text) == CHOOSE i \in WsPositions(text) : \A j \in WsPositions(text) : i <= j

\* msg.split_once(|c| c.is_whitespace()): split at the first whitespace
\* character; without one the whole text is the command
SplitOnce(text) ==
    IF WsPositions(text) = {}
    THEN [cmd |-> Flatten(text), args |-> << >>]
    ELSE [cmd |-> Flatten(SubSeq(text, 1, FirstWs(text) - 1)),
          args |-> SubSeq(text, FirstWs(text) + 1, Len(text))]

RECURSIVE JoinWords(_)
\* Vec<&str>::join(" ")
JoinWords(ws) ==
    IF ws = << >> THEN << >>
    ELSE IF Len(ws) = 1 THEN ws
    ELSE <<Head(ws), WS>> \o JoinWords(Tail(ws))

IsWord(t) == t # WS

\* ws_collapse: self.split_whitespace().collect::<Vec<&str>>().join(" ")
WsCollapse(text) == JoinWords(SelectSeq(text, IsWord))

StartsWith(s, prefix) ==
    Len(prefix) <= Len(s) /\ SubSeq(s, 1, Len(prefix)) = prefix

\* ------------------------------------------------------------------------
\* HashMap<String, T>: a function whose domain is the set of keys present
\* ------------------------------------------------------------------------

EmptyMap == [k \in {} |-> TRUE]

MapGet(map, key) == IF key \in DOMAIN map THEN Some(map[key]) ELSE None

\* a lookup that prefers the "*" entry
GetWildStarFirst(map, key) ==
    IF MapGet(map, <<"*">>).some THEN MapGet(map, <<"*">>) ELSE MapGet(map, key)

\* get_wild: map.get(key).or_else(|| map.get("*"))
GetWild(map, key) ==
    IF MapGet(map, key).some THEN MapGet(map, key) ELSE MapGet(map, <<"*">>)

\* ------------------------------------------------------------------------
\* ReMut (util.rs)
\* ------------------------------------------------------------------------

ReMutNew(list) ==
    IF \A i \in 1..Len(list) : RegexCompiles(list[i][1])
    THEN [ok |-> TRUE, re_str |-> list, re_vec |-> [i \in 1..Len(list) |-> list[i][1]]]
    ELSE [ok |-> FALSE]

IsAnchored(p) == Len(p) > 0 /\ Head(p) = "^"

\* the offsets at which pattern p matches in s
MatchOffsets(p, s) ==
    IF IsAnchored(p)
    THEN IF MatchesAt(Tail(p), s, 0) THEN {0} ELSE {}
    ELSE {off \in 0..Len(s) : MatchesAt(p, s, off)}

\* a replace that works on the rightmost match
RegexReplaceLast(p, s, repl) ==
    IF MatchOffsets(p, s) = {} THEN s
    ELSE LET off == CHOOSE o \in MatchOffsets(p, s) : \A o2 \in MatchOffsets(p, s) : o >= o2
             len == IF IsAnchored(p) THEN Len(p) - 1 ELSE Len(p)
         IN SubSeq(s, 1, off) \o repl \o SubSeq(s, off + len + 1, Len(s))

\* Regex::replace: the leftmost match is replaced, once
RegexReplace(p, s, repl) ==
    IF MatchOffsets(p, s) = {} THEN s
    ELSE LET off == CHOOSE o \in MatchOffsets(p, s) : \A o2 \in MatchOffsets(p, s) : o <= o2
             len == IF IsAnchored(p) THEN Len(p) - 1 ELSE Len(p)
         IN SubSeq(s, 1, off) \o repl \o SubSeq(s, off + len + 1, Len(s))

RECURSIVE ReMutFrom(_, _, _)
ReMutFrom(m, text, i) ==
    IF i > Len(m.re_vec) THEN None
    ELSE IF IsMatch(m.re_vec[i], text)
         THEN Some(<<i - 1, RegexReplace(m.re_vec[i], text, m.re_str[i][2])>>)
         ELSE ReMutFrom(m, text, i + 1)

\* ReMut::re_mut: (index, rewritten text) for the first matching rule
ReMutApply(m, text) == ReMutFrom(m, text, 1)

\* ------------------------------------------------------------------------
\* The configuration file and BotConfig::new (ircbot.rs)
\* ------------------------------------------------------------------------

\* timezone identifiers chrono_tz can parse
KnownTimezones == {<<"U", "T", "C">>, <<"E", "E", "T">>}

\* Tera::add_raw_template fails on a template with an unclosed "{"; the
\* character "$" stands for the placeholder {{arg}}
TemplateParses(tmpl) == \A i \in 1..Len(tmpl) : tmpl[i] # "{"

FileA ==
    [ readable           |-> TRUE,
      channel            |-> ChanA,
      privileged_nicks   |-> (Alice :> TRUE @@ Bob :> FALSE),
      url_regex          |-> <<"h", "t", "t", "p">>,
      url_log_db         |-> <<"d", "1">>,
      url_blacklist      |-> << >>,
      url_fetch_channels |-> (ChanA :> TRUE),
      url_cmd_channels   |-> (Star :> TRUE),
      url_mut_channels   |-> EmptyMap,
      url_log_channels   |-> (ChanA :> TRUE),
      url_dup_complain_channels |-> EmptyMap,
      url_dup_expire_days |-> EmptyMap,
      url_dup_timezone   |-> (ChanA :> <<"E", "E", "T">>),
      cmd_reload         |-> <<"r", "e", "l">>,
      cmd_say            |-> <<"s", "a", "y">>,
      cmd_invite         |-> <<"i", "n", "v">>,
      cmd_mode_o         |-> <<"o", "p">>,
      cmd_mode_v         |-> <<"v", "o">>,
      mode_o_acl         |-> << <<"a", "@">> >>,
      auto_o_acl         |-> << <<"@", "g">> >>,
      url_cmd_list       |-> (<<"w">> :> [url_tmpl |-> <<"w", "/", "$">>, output_filter |-> <<"t">>]
                              @@ <<"h">> :> [url_tmpl |-> <<"h", "/", "$">>, output_filter |-> <<"t">>]),
      url_mut_list       |-> << >> ]

FileB ==
    [ readable           |-> TRUE,
      channel            |-> ChanB,
      privileged_nicks   |-> (Bob :> TRUE @@ Star :> TRUE),
      url_regex          |-> <<"h", "t", "t", "p", "s">>,
      url_log_db         |-> <<"d", "2">>,
      url_blacklist      |-> << <<"h", "t", "t", "p", "s", ":", "9">> >>,
      url_fetch_channels |-> (ChanA :> FALSE @@ Star :> TRUE),
      url_cmd_channels   |-> EmptyMap,
      url_mut_channels   |-> (Star :> TRUE),
      url_log_channels   |-> (Star :> TRUE),
      url_dup_complain_channels |-> (ChanA :> TRUE),
      url_dup_expire_days |-> (Star :> 30),
      url_dup_timezone   |-> (Star :> <<"U", "T", "C">>),
      cmd_reload         |-> <<"r", "e", "h">>,
      cmd_say            |-> <<"s", "p", "k">>,
      cmd_invite         |-> <<"s", "p", "k">>,
      cmd_mode_o         |-> <<"o", "p">>,
      cmd_mode_v         |-> <<"v", "o">>,
      mode_o_acl         |-> << <<"^", "b">>, <<"@", "h">> >>,
      auto_o_acl         |-> << >>,
      url_cmd_list       |-> (<<"w">> :> [url_tmpl |-> <<"v", "/", "$">>, output_filter |-> <<"t">>]),
      url_mut_list       |-> << <<<<"s", ":">>, <<":">>>> >> ]

\* FileB made invalid in one place each
FileUnreadable == [FileB EXCEPT !.readable = FALSE]

FileBadAcl == [FileB EXCEPT !.mode_o_acl = << <<"^", "b">>, BadPattern >>]

FileBadUrlRegex == [FileB EXCEPT !.url_regex = BadPattern]

FileBadTemplate ==
    [FileB EXCEPT !.url_cmd_list = (<<"w">> :> [url_tmpl |-> <<"{", "$">>, output_filter |-> <<"t">>])]

FileBadFilter ==
    [FileB EXCEPT !.url_cmd_list = (<<"w">> :> [url_tmpl |-> <<"v", "/", "$">>, output_filter |-> BadPattern])]

FileBadMut == [FileB EXCEPT !.url_mut_list = << <<BadPattern, <<":">>>> >>]

FileBadTimezone == [FileB EXCEPT !.url_dup_timezone = (Star :> <<"M", "A", "R", "S">>)]

ValidFiles == {FileA, FileB}

InvalidFiles ==
    {FileUnreadable, FileBadAcl, FileBadUrlRegex, FileBadTemplate, FileBadFilter,
     FileBadMut, FileBadTimezone}

ConfigFiles == ValidFiles \cup InvalidFiles

\* the fields BotConfig::new adds to the deserialized file
Compiled(f) ==
    [ mode_o_acl_rt |-> ReAclNew(f.mode_o_acl),
      auto_o_acl_rt |-> ReAclNew(f.auto_o_acl),
      url_re        |-> f.url_regex,
      url_mut_re    |-> ReMutNew(f.url_mut_list),
      url_dup_tz    |-> f.url_dup_timezone ]

\* the step of BotConfig::new that fails on file f, "" when none does
BuildFailure(f) ==
    IF ~f.readable THEN "read"
    ELSE IF ~ReAclNew(f.mode_o_acl).ok \/ ~ReAclNew(f.auto_o_acl).ok THEN "acl"
    ELSE IF ~RegexCompiles(f.url_regex) THEN "url_regex"
    ELSE IF \E k \in DOMAIN f.url_cmd_list : ~TemplateParses(f.url_cmd_list[k].url_tmpl)
         THEN "template"
    ELSE IF \E k \in DOMAIN f.url_cmd_list : ~RegexCompiles(f.url_cmd_list[k].output_filter)
         THEN "output_filter"
    ELSE IF ~ReMutNew(f.url_mut_list).ok THEN "url_mut"
    ELSE IF \E k \in DOMAIN f.url_dup_timezone : f.url_dup_timezone[k] \notin KnownTimezones
         THEN "timezone"
    ELSE ""

\* BotConfig::new: Ok(config) with every run-time field built, or Err
BotConfigNew(f) ==
    IF BuildFailure(f) = ""
    THEN [ok |-> TRUE, cfg |-> [raw |-> f, rt |-> Compiled(f)]]
    ELSE [ok |-> FALSE, err |-> BuildFailure(f)]

\* ------------------------------------------------------------------------
\* State of one IrcBot instance and of its two queue consumer tasks
\* ------------------------------------------------------------------------

VARIABLES
    config,     \* IrcBot.config: the installed BotConfig
    handlers,   \* IrcBot.handlers: BotHandlers
    state,      \* IrcBot.state: my_nick, msg_nick, msg_user, msg_host, msg_userhost
    op_q,       \* items in the op channel (op_sender -> op_rx)
    msg_q,      \* items in the msg channel (msg_sender -> msg_rx)
    op_pc,      \* read_op_queue: "recv" | "exec" | "sleep"
    op_cur,     \* read_op_queue: the op being executed
    op_timer,   \* read_op_queue: milliseconds of sleep left
    msg_pc,     \* read_msg_queue: "recv" | "exec" | "sleep"
    msg_cur,    \* read_msg_queue: the message being sent
    msg_timer,  \* read_msg_queue: milliseconds of sleep left
    sent,       \* every command handed to the transport Sender, in order
    logged,     \* the error!() lines written so far
    disp_pc,    \* IrcBot::run: "setup" | "next" | "observe" | "dispatch" | "stopped"
    ev_n,       \* number of inbound events taken from the stream
    ev,         \* the inbound event being processed
    calls,      \* history: the handler calls made for the event being processed
    op_enq,     \* history: number of ops enqueued so far
    msg_enq,    \* history: number of messages enqueued so far
    op_done,    \* history: the ops whose execution has ended, in order
    msg_done,   \* history: the messages whose execution has ended, in order
    op_idle,    \* history: ms since the last op execution ended (capped)
    msg_idle    \* history: ms since the last message execution ended (capped)

botVars == <<config, handlers, state>>

opVars == <<op_q, op_pc, op_cur, op_timer, op_enq, op_done, op_idle>>

msgVars == <<msg_q, msg_pc, msg_cur, msg_timer, msg_enq, msg_done, msg_idle>>

dispVars == <<disp_pc, ev_n, ev, calls>>

engineVars == <<botVars, opVars, msgVars, dispVars, sent, logged>>

VARIABLES
    acl_pc,     \* SpecAcl: "new" before ReAcl::new, "match" before re_match, "done"
    acl_list,   \* SpecAcl: the rule list handed to ReAcl::new
    acl_obj,    \* SpecAcl: the result of ReAcl::new
    acl_text,   \* SpecAcl: the identity handed to re_match
    acl_out     \* SpecAcl: the result of re_match

aclVars == <<acl_pc, acl_list, acl_obj, acl_text, acl_out>>

VARIABLES
    url_pc,     \* SpecUrl: "in" before the call, "done" after it, "failed"
    url_in,     \* SpecUrl: the function called and its arguments
    url_out     \* SpecUrl: what the call returned

urlVars == <<url_pc, url_in, url_out>>

VARIABLES
    istate,     \* SpecMain: the IrcState of bin/sjmb.rs
    main_pc     \* SpecMain: run_main_loop: "loop" | "returned_ok" | "returned_err"

mainVars == <<istate, main_pc>>

VARIABLES
    h_lock,     \* SpecLock: IrcBot.handlers' RwLock: read guards held, write guard held
    c_lock,     \* SpecLock: IrcBot.config's RwLock: read guards held, write guard held
    lk_i,       \* SpecLock: run: index of the observer being called
    lk_call,    \* SpecLock: the handler run is awaiting, and where that handler stands
    lk_task,    \* SpecLock: position of the other task that calls IrcBot's methods
    lk_new,     \* SpecLock: the BotConfig that task has built
    lk_start,   \* SpecLock, history: the configuration installed when the event was taken
    lk_reads    \* SpecLock, history: the configurations read while handling the event

lockVars == <<h_lock, c_lock, lk_i, lk_call, lk_task, lk_new, lk_start, lk_reads>>

VARIABLES
    db          \* SpecDb: the url table, the clock, and where the op consumer stands
                \* inside op_handle_urlcheck / db_add_url

\* the variables of the statement-level specifications
restVars == <<lockVars, db>>

\* the variables the IrcBot engine never touches
otherVars == <<aclVars, urlVars, mainVars, restVars>>

vars == <<engineVars, aclVars, urlVars, mainVars, restVars>>

\* in milliseconds
IRC_OP_THROTTLE == 2500

IRC_MSG_THROTTLE == 1500

\* ------------------------------------------------------------------------
\* IrcOp, IrcMsg and the transport commands
\* ------------------------------------------------------------------------

\* an IrcOp value; id 0 until it is put on the queue
Op(kind, args) == [id |-> 0, op |-> kind, a |-> args]

\* an IrcMsg value; the text is a token sequence
Msg(target, text) == [id |-> 0, target |-> target, msg |-> text]

NoItem == [id |-> 0, op |-> ""]

\* a command handed to the transport by task `by` while executing item `id`
Tx(by, id, cmd, args) == [by |-> by, item |-> id, cmd |-> cmd, a |-> args]

\* the items stamped with the positions they get in the channel
Stamp(items, n) == [i \in 1..Len(items) |-> [items[i] EXCEPT !.id = n + i]]

\* a channel that puts new items in front of the waiting ones
SendAllAtHead(q, items, n) == Stamp(items, n) \o q

\* mpsc::UnboundedSender::send, once per item: appended at the tail
SendAll(q, items, n) == q \o Stamp(items, n)

Ids(q) == [i \in 1..Len(q) |-> q[i].id]

\* history entry: the execution of item id has ended, with an error or not
Done(id, err) == [id |-> id, err |-> err]

Min(x, y) == IF x < y THEN x ELSE y

Max(x, y) == IF x > y THEN x ELSE y

\* ------------------------------------------------------------------------
\* What the outside world answers while one op is executed
\* ------------------------------------------------------------------------

\* most regex captures in one fetched body
MaxCaps == 2

\* get_text_body: Err, Ok(None) for a non-text content type, or a text body;
\* of a body only the page title and the output filter's captures matter
FetchResults ==
    { [kind |-> "err"], [kind |-> "nontext"] }
    \cup { [kind |-> "text", title |-> t, caps |-> c] :
             t \in {None, Some(<< <<"T">> >>), Some(<<U1>>),
                    Some(<< <<"T">>, WS, WS, <<"x">>, WS >>), Some(<<U1, WS>>)},
             c \in {[i \in 1..k |-> <<"r">>] : k \in {0, MaxCaps}} }

RECURSIVE Digits(_)
\* {} of an integer: its decimal digits
Digits(n) == IF n < 10 THEN <<ToString(n)>> ELSE Digits(n \div 10) \o <<ToString(n % 10)>>

\* the query's aggregate row: count, first and last sighting
Seen(cnt, first, last) == [kind |-> "some", cnt |-> cnt, first |-> first, last |-> last]

\* start_db / db_check_url / db_add_url: Err, no row, or the aggregate row
DbResults ==
    { [kind |-> "err"], [kind |-> "none"], Seen(0, None, None),
      Seen(1, Some(1), Some(1)), Seen(2, Some(1), Some(2)) }

\* tx_fail = j > 0: the transport rejects the j-th command of the execution
ExecEnv ==
    [tx_fail : 0..MaxCaps, fetch : FetchResults, db : DbResults]

Planned(cmds) == [err |-> FALSE, cmds |-> cmds]

Failed == [err |-> TRUE, cmds |-> << >>]

\* DateTime::from_timestamp(ts, 0).with_timezone(&tz), as {} prints it
TimeIn(ts, tz) == Digits(ts) \o <<"@">> \o tz

\* "Wanha URL, nähty {ts_first}"
SeenOnceText(first, tz) == << <<"o", "l", "d">>, WS, TimeIn(first, tz) >>

\* "Wanha URL, nähty {cnt} kertaa, ensin {ts_first} ja viimeksi {ts_last}"
SeenManyText(cnt, first, last, tz) ==
    << <<"o", "l", "d">>, WS, Digits(cnt), WS, TimeIn(first, tz), WS, TimeIn(last, tz) >>

\* a check that reports every sighting as a single one
UrlCheckPlanOnceOnly(op, env) ==
    IF env.db.kind = "err" THEN Failed
    ELSE IF env.db.kind = "none" THEN Planned(<< >>)
    ELSE IF env.db.first.some /\ env.db.last.some /\ env.db.cnt >= 1
         THEN Planned(<< <<"PRIVMSG", op.a[3], SeenOnceText(env.db.first.val, op.a[4])>> >>)
         ELSE Planned(<< >>)

\* op_handle_urlcheck
UrlCheckPlan(op, env) ==
    IF env.db.kind = "err" THEN Failed
    ELSE IF env.db.kind = "none" THEN Planned(<< >>)
    ELSE IF env.db.first.some /\ env.db.last.some
         THEN IF env.db.cnt = 1
              THEN Planned(<< <<"PRIVMSG", op.a[3],
                                SeenOnceText(env.db.first.val, op.a[4])>> >>)
              ELSE IF env.db.cnt > 1
              THEN Planned(<< <<"PRIVMSG", op.a[3],
                                SeenManyText(env.db.cnt, env.db.first.val,
                                             env.db.last.val, op.a[4])>> >>)
              ELSE Planned(<< >>)
         ELSE Planned(<< >>)

\* op_handle_urlfetch: one "--> capture" line per capture of the output filter
UrlFetchPlan(op, env) ==
    IF env.fetch.kind = "err" THEN Failed
    ELSE IF env.fetch.kind = "nontext" THEN Planned(<< >>)
    ELSE Planned([i \in 1..Len(env.fetch.caps) |->
                    <<"PRIVMSG", op.a[2], <<<<"-", "-", ">">>, WS, env.fetch.caps[i]>> >>])

\* op_handle_urllog
UrlLogPlan(op, env) ==
    IF env.db.kind = "err" THEN Failed ELSE Planned(<< >>)

\* format!("\"{title_c}\"")
Quoted(text) ==
    IF text = << >> THEN << <<"\"", "\"">> >>
    ELSE IF Len(text) = 1 THEN << <<"\"">> \o text[1] \o <<"\"">> >>
    ELSE << <<"\"">> \o Head(text) >> \o SubSeq(text, 2, Len(text) - 1)
         \o << text[Len(text)] \o <<"\"">> >>

\* op_handle_urltitle
UrlTitlePlan(op, env) ==
    IF env.fetch.kind = "err" THEN Failed
    ELSE IF env.fetch.kind = "nontext" THEN Planned(<< >>)
    ELSE IF env.fetch.title.some /\ Flatten(env.fetch.title.val) # op.a[1]
         THEN Planned(<< <<"PRIVMSG", op.a[2], Quoted(WsCollapse(env.fetch.title.val))>> >>)
         ELSE Planned(<< >>)

\* op_dispatch: the transport commands the execution of op issues, in order
OpPlan(op, env) ==
    CASE op.op = "Invite"    -> Planned(<< <<"INVITE", op.a[1], op.a[2]>> >>)
      [] op.op = "Join"      -> Planned(<< <<"JOIN", op.a[1]>> >>)
      [] op.op = "ModeOper"  -> Planned(<< <<"MODE", op.a[1], "+o", op.a[2]>> >>)
      [] op.op = "ModeVoice" -> Planned(<< <<"MODE", op.a[1], "+v", op.a[2]>> >>)
      [] op.op = "Nick"      -> Planned(<< <<"NICK", op.a[1]>> >>)
      [] op.op = "UrlCheck"  -> UrlCheckPlan(op, env)
      [] op.op = "UrlFetch"  -> UrlFetchPlan(op, env)
      [] op.op = "UrlLog"    -> UrlLogPlan(op, env)
      [] op.op = "UrlTitle"  -> UrlTitlePlan(op, env)

\* the `?` after every transport call: the first rejected command ends the
\* execution with Err, the commands before it have been sent
Attempt(plan, tx_fail) ==
    IF plan.err THEN [err |-> TRUE, sends |-> << >>]
    ELSE IF tx_fail \in 1..Len(plan.cmds)
         THEN [err |-> TRUE, sends |-> SubSeq(plan.cmds, 1, tx_fail - 1)]
         ELSE [err |-> FALSE, sends |-> plan.cmds]

OpDispatch(op, env) == Attempt(OpPlan(op, env), env.tx_fail)

\* the commands of one execution as transport log entries
TxAll(by, id, cmds) == [i \in 1..Len(cmds) |-> Tx(by, id, cmds[i][1], Tail(cmds[i]))]

\* ------------------------------------------------------------------------
\* read_op_queue
\* ------------------------------------------------------------------------

\* the answers that the execution of op can depend on
ExecEnvFor(op) ==
    CASE op.op = "UrlCheck" ->
           {e \in ExecEnv : e.tx_fail <= 1 /\ e.fetch.kind = "err"}
      [] op.op = "UrlLog" ->
           {e \in ExecEnv : e.tx_fail = 0 /\ e.fetch.kind = "err"}
      [] op.op = "UrlFetch" ->
           {e \in ExecEnv : e.db.kind = "err"
                             /\ (e.fetch.kind = "text" => ~e.fetch.title.some)}
      [] op.op = "UrlTitle" ->
           {e \in ExecEnv : e.tx_fail <= 1 /\ e.db.kind = "err"
                             /\ (e.fetch.kind = "text" => e.fetch.caps = << >>)}
      [] OTHER ->
           {e \in ExecEnv : e.tx_fail <= 1 /\ e.db.kind = "err" /\ e.fetch.kind = "err"}

\* rx.recv() on a channel that hands out the newest item first
OpRecvNewestFirst ==
    /\ op_pc = "recv"
    /\ op_q # << >>
    /\ op_cur' = op_q[Len(op_q)]
    /\ op_q' = SubSeq(op_q, 1, Len(op_q) - 1)
    /\ op_pc' = "exec"
    /\ UNCHANGED <<botVars, msgVars, dispVars, sent, logged,
                   op_timer, op_enq, op_done, op_idle>>
    /\ UNCHANGED otherVars

\* while let Some(op) = rx.recv().await
OpRecv ==
    /\ op_pc = "recv"
    /\ op_q # << >>
    /\ op_cur' = Head(op_q)
    /\ op_q' = Tail(op_q)
    /\ op_pc' = "exec"
    /\ UNCHANGED <<botVars, msgVars, dispVars, sent, logged,
                   op_timer, op_enq, op_done, op_idle>>
    /\ UNCHANGED otherVars

\* a consumer that puts an op whose execution failed back on its queue
OpFinishRetry(env) ==
    /\ op_pc = "exec"
    /\ LET r == OpDispatch(op_cur, env) IN
         /\ sent' = sent \o TxAll("op", op_cur.id, r.sends)
         /\ logged' = IF r.err THEN logged \cup {[who |-> "op", n |-> op_cur.id]}
                      ELSE logged
         /\ op_q' = IF r.err THEN Append(op_q, op_cur) ELSE op_q
    /\ op_done' = Append(op_done, Done(op_cur.id, OpDispatch(op_cur, env).err))
    /\ op_cur' = NoItem
    /\ op_pc' = "sleep"
    /\ op_timer' = IRC_OP_THROTTLE
    /\ op_idle' = 0
    /\ UNCHANGED <<botVars, msgVars, dispVars, op_enq>>
    /\ UNCHANGED otherVars

\* op_dispatch(..).await; error!() on Err; then the sleep starts
OpFinish(env) ==
    /\ op_pc = "exec"
    /\ LET r == OpDispatch(op_cur, env) IN
         /\ sent' = sent \o TxAll("op", op_cur.id, r.sends)
         /\ logged' = IF r.err THEN logged \cup {[who |-> "op", n |-> op_cur.id]}
                      ELSE logged
    /\ op_done' = Append(op_done, Done(op_cur.id, OpDispatch(op_cur, env).err))
    /\ op_cur' = NoItem
    /\ op_pc' = "sleep"
    /\ op_timer' = IRC_OP_THROTTLE
    /\ op_idle' = 0
    /\ UNCHANGED <<botVars, msgVars, dispVars, op_q, op_enq>>
    /\ UNCHANGED otherVars

\* sleep(Duration::from_millis(IRC_OP_THROTTLE)) has elapsed
OpWake ==
    /\ op_pc = "sleep"
    /\ op_timer = 0
    /\ op_pc' = "recv"
    /\ UNCHANGED <<botVars, msgVars, dispVars, sent, logged,
                   op_q, op_cur, op_timer, op_enq, op_done, op_idle>>
    /\ UNCHANGED otherVars

\* ------------------------------------------------------------------------
\* read_msg_queue
\* ------------------------------------------------------------------------

\* a message consumer that shares the op consumer's turn: it takes a message
\* only while no op is executing or pending
MsgRecvAfterOps ==
    /\ msg_pc = "recv"
    /\ msg_q # << >>
    /\ op_pc = "recv" /\ op_q = << >>
    /\ msg_cur' = Head(msg_q)
    /\ msg_q' = Tail(msg_q)
    /\ msg_pc' = "exec"
    /\ UNCHANGED <<botVars, opVars, dispVars, sent, logged,
                   msg_timer, msg_enq, msg_done, msg_idle>>
    /\ UNCHANGED otherVars

\* while let Some(m) = rx.recv().await
MsgRecv ==
    /\ msg_pc = "recv"
    /\ msg_q # << >>
    /\ msg_cur' = Head(msg_q)
    /\ msg_q' = Tail(msg_q)
    /\ msg_pc' = "exec"
    /\ UNCHANGED <<botVars, opVars, dispVars, sent, logged,
                   msg_timer, msg_enq, msg_done, msg_idle>>
    /\ UNCHANGED otherVars

\* a consumer that sleeps only after a message that was sent
MsgFinishNoSleepOnError(tx_ok) ==
    /\ msg_pc = "exec"
    /\ sent' = IF tx_ok
               THEN Append(sent, Tx("msg", msg_cur.id, "PRIVMSG", <<msg_cur.target, msg_cur.msg>>))
               ELSE sent
    /\ logged' = IF tx_ok THEN logged ELSE logged \cup {[who |-> "msg", n |-> msg_cur.id]}
    /\ msg_done' = Append(msg_done, Done(msg_cur.id, ~tx_ok))
    /\ msg_cur' = NoItem
    /\ msg_pc' = IF tx_ok THEN "sleep" ELSE "recv"
    /\ msg_timer' = IF tx_ok THEN IRC_MSG_THROTTLE ELSE 0
    /\ msg_idle' = 0
    /\ UNCHANGED <<botVars, opVars, dispVars, msg_q, msg_enq>>
    /\ UNCHANGED otherVars

\* irc_sender.send_privmsg(target, msg); error!() on Err; then the sleep starts
MsgFinish(tx_ok) ==
    /\ msg_pc = "exec"
    /\ sent' = IF tx_ok
               THEN Append(sent, Tx("msg", msg_cur.id, "PRIVMSG", <<msg_cur.target, msg_cur.msg>>))
               ELSE sent
    /\ logged' = IF tx_ok THEN logged ELSE logged \cup {[who |-> "msg", n |-> msg_cur.id]}
    /\ msg_done' = Append(msg_done, Done(msg_cur.id, ~tx_ok))
    /\ msg_cur' = NoItem
    /\ msg_pc' = "sleep"
    /\ msg_timer' = IRC_MSG_THROTTLE
    /\ msg_idle' = 0
    /\ UNCHANGED <<botVars, opVars, dispVars, msg_q, msg_enq>>
    /\ UNCHANGED otherVars

\* sleep(Duration::from_millis(IRC_MSG_THROTTLE)) has elapsed
MsgWake ==
    /\ msg_pc = "sleep"
    /\ msg_timer = 0
    /\ msg_pc' = "recv"
    /\ UNCHANGED <<botVars, opVars, dispVars, sent, logged,
                   msg_q, msg_cur, msg_timer, msg_enq, msg_done, msg_idle>>
    /\ UNCHANGED otherVars

\* ------------------------------------------------------------------------
\* Time: d milliseconds pass for every sleeping task
\* ------------------------------------------------------------------------

TickSteps == {IRC_OP_THROTTLE - IRC_MSG_THROTTLE, IRC_MSG_THROTTLE}

Tick(d) ==
    /\ \/ op_pc = "sleep" /\ op_timer > 0
       \/ msg_pc = "sleep" /\ msg_timer > 0
    /\ op_timer' = Max(0, op_timer - d)
    /\ msg_timer' = Max(0, msg_timer - d)
    /\ op_idle' = IF op_pc = "sleep" THEN Min(IRC_OP_THROTTLE, op_idle + d) ELSE op_idle
    /\ msg_idle' = IF msg_pc = "sleep" THEN Min(IRC_MSG_THROTTLE, msg_idle + d) ELSE msg_idle
    /\ UNCHANGED <<botVars, dispVars, sent, logged, op_q, op_pc, op_cur, op_enq, op_done,
                   msg_q, msg_pc, msg_cur, msg_enq, msg_done>>
    /\ UNCHANGED otherVars

\* ------------------------------------------------------------------------
\* BotHandlers and the register_* methods
\* ------------------------------------------------------------------------

MapInsert(map, key, val) ==
    [k \in DOMAIN map \cup {key} |-> IF k = key THEN val ELSE map[k]]

NoHandlers ==
    [irc_cmd |-> << >>, privmsg_open |-> EmptyMap, privmsg_priv |-> EmptyMap,
     chanmsg |-> EmptyMap]

\* clear_handlers
ClearHandlers(hs) == NoHandlers

\* register_irc_cmd
RegisterIrcCmd(hs, handler) == [hs EXCEPT !.irc_cmd = Append(@, handler)]

\* register_privmsg_priv
RegisterPrivmsgPriv(hs, cmd, handler) ==
    [hs EXCEPT !.privmsg_priv = MapInsert(@, cmd, handler)]

\* register_privmsg_open
RegisterPrivmsgOpen(hs, cmd, handler) ==
    [hs EXCEPT !.privmsg_open = MapInsert(@, cmd, handler)]

\* register_chanmsg
RegisterChanmsg(hs, cmd, handler) ==
    [hs EXCEPT !.chanmsg = MapInsert(@, cmd, handler)]

\* keyword of the channel command registered by the embedding program
ChanKeyword == <<"!", "h">>

\* The embedding program's (re)configuration: the registry is cleared and
\* one handler per command keyword of the configuration is registered.
Configure(cfg) ==
    RegisterChanmsg(
      RegisterPrivmsgOpen(
        RegisterPrivmsgPriv(
          RegisterPrivmsgPriv(
            RegisterIrcCmd(ClearHandlers(NoHandlers), "observer"),
            cfg.raw.cmd_reload, "reload"),
          cfg.raw.cmd_say, "say"),
        cfg.raw.cmd_invite, "invite"),
      ChanKeyword, "chan")

\* ------------------------------------------------------------------------
\* IrcBot::reload
\* ------------------------------------------------------------------------

\* a reload that installs whatever it could read
ReloadKeepsPartial(cfg, f, n) ==
    IF BotConfigNew(f).ok
    THEN [ok |-> TRUE, config |-> BotConfigNew(f).cfg, err |-> "", logs |-> {}]
    ELSE [ok |-> FALSE, config |-> [raw |-> f, rt |-> Compiled(f)],
          err |-> BotConfigNew(f).err, logs |-> {[who |-> "reload", n |-> n]}]

\* Ok: the new BotConfig replaces the installed one; Err: the installed one
\* stays, "*** Reload failed." is logged and the error is returned.
\* cfg is the installed configuration, f the file read, n the event number.
Reload(cfg, f, n) ==
    IF BotConfigNew(f).ok
    THEN [ok |-> TRUE, config |-> BotConfigNew(f).cfg, err |-> "", logs |-> {}]
    ELSE [ok |-> FALSE, config |-> cfg,
          err |-> BotConfigNew(f).err, logs |-> {[who |-> "reload", n |-> n]}]

\* ------------------------------------------------------------------------
\* The command handlers of the embedding program.  A handler works on the
\* world w = [config, handlers, ops, msgs, logged, calls]: ops and msgs are
\* the items it hands to new_op / new_msg, in order.
\* ------------------------------------------------------------------------

HandlerResults == {"true", "false", "err"}

\* "say #chan text" goes to #chan, "say text" to the configured channel
SayMsg(cfg, args) ==
    IF args # << >> /\ Head(Head(args)) = "#" /\ WsPositions(args) # {}
    THEN Msg(Head(args), SubSeq(args, FirstWs(args) + 1, Len(args)))
    ELSE Msg(cfg.raw.channel, args)

\* "*** Reload successful."
ReloadOkText == << <<"o", "k">> >>

\* "Could not parse runtime config ..."
ReloadFailedText == << <<"f", "a", "i", "l">> >>

\* a reload handler that stops at IrcBot::reload: the configuration is
\* replaced and the registry is left as it was
ReloadHandlerKeepsRegistry(w, file, nick, n) ==
    [w EXCEPT
       !.config = Reload(w.config, file, n).config,
       !.logged = @ \cup Reload(w.config, file, n).logs,
       !.msgs = Append(@, Msg(nick,
                   IF Reload(w.config, file, n).ok
                   THEN ReloadOkText ELSE ReloadFailedText))]

ReloadHandler(w, file, nick, n) ==
    [w EXCEPT
       !.config = Reload(w.config, file, n).config,
       !.handlers = IF Reload(w.config, file, n).ok
                    THEN Configure(Reload(w.config, file, n).config) ELSE @,
       !.logged = @ \cup Reload(w.config, file, n).logs,
       !.msgs = Append(@, Msg(nick,
                   IF Reload(w.config, file, n).ok
                   THEN ReloadOkText ELSE ReloadFailedText))]

\* the effects of handler h when it finds something to do
HandlerBody(h, w, file, nick, n, args) ==
    CASE h = "reload" -> ReloadHandler(w, file, nick, n)
      [] h = "say"    -> [w EXCEPT !.msgs = Append(@, SayMsg(w.config, args))]
      [] h = "invite" -> [w EXCEPT !.ops = Append(@, Op("Invite", <<nick, w.config.raw.channel>>))]
      [] OTHER        -> w

\* one call of a registered handler: the call is recorded together with the
\* sender, the privileged-sender map installed at that moment and the
\* keyword and remainder the handler is given
Invoke(table, h, res, w, file, nick, n, cmd, args) ==
    [res |-> res,
     w |-> [(IF res = "true" THEN HandlerBody(h, w, file, nick, n, args) ELSE w)
              EXCEPT !.calls = Append(w.calls,
                  [table |-> table, h |-> h, res |-> res, nick |-> nick,
                   priv_map |-> w.config.raw.privileged_nicks,
                   cmd |-> cmd, args |-> args])]]

NotRecognized(w) == [res |-> "false", w |-> w]

\* ------------------------------------------------------------------------
\* handle_privmsg
\* ------------------------------------------------------------------------

\* a privilege test that falls back to the "*" entry
NickIsPrivilegedWild(cfg, nick) ==
    GetWild(cfg.raw.privileged_nicks, nick) = Some(TRUE)

\* matches!(self.config.read().await.privileged_nicks.get(&nick), Some(true))
NickIsPrivileged(cfg, nick) ==
    MapGet(cfg.raw.privileged_nicks, nick) = Some(TRUE)

\* handle_privmsg_priv
HandlePrivmsgPriv(w, env, nick, n, cmd, args) ==
    IF MapGet(w.handlers.privmsg_priv, cmd).some
    THEN Invoke("priv", w.handlers.privmsg_priv[cmd], env.res_priv, w, env.file, nick, n, cmd, args)
    ELSE NotRecognized(w)

\* handle_privmsg_open
HandlePrivmsgOpen(w, env, nick, n, cmd, args) ==
    IF MapGet(w.handlers.privmsg_open, cmd).some
    THEN Invoke("open", w.handlers.privmsg_open[cmd], env.res_open, w, env.file, nick, n, cmd, args)
    ELSE NotRecognized(w)

\* a handle_privmsg that turns an error of the privileged handler into
\* "not handled"
HandlePrivmsgSwallow(w, env, nick, n, cmd, args) ==
    LET p == IF NickIsPrivileged(w.config, nick)
             THEN HandlePrivmsgPriv(w, env, nick, n, cmd, args)
             ELSE NotRecognized(w)
    IN IF p.res = "true" THEN p
       ELSE HandlePrivmsgOpen(p.w, env, nick, n, cmd, args)

\* a handle_privmsg in which a privileged sender never reaches the open table
HandlePrivmsgPrivOnly(w, env, nick, n, cmd, args) ==
    IF NickIsPrivileged(w.config, nick)
    THEN HandlePrivmsgPriv(w, env, nick, n, cmd, args)
    ELSE HandlePrivmsgOpen(w, env, nick, n, cmd, args)

\* handle_privmsg: the privileged table for a privileged sender, then the
\* open table; `?` returns the first error
HandlePrivmsg(w, env, nick, n, cmd, args) ==
    LET p == IF NickIsPrivileged(w.config, nick)
             THEN HandlePrivmsgPriv(w, env, nick, n, cmd, args)
             ELSE NotRecognized(w)
    IN IF p.res \in {"true", "err"} THEN p
       ELSE HandlePrivmsgOpen(p.w, env, nick, n, cmd, args)

\* ------------------------------------------------------------------------
\* handle_chanmsg
\* ------------------------------------------------------------------------

\* cmd.strip_prefix('!')
StripBang(cmd) ==
    IF cmd # << >> /\ Head(cmd) = "!" THEN Some(Tail(cmd)) ELSE None

\* Tera rendering of a template in which "$" stands for {{arg}}
Render(tmpl, arg) ==
    Flatten([i \in 1..Len(tmpl) |-> IF tmpl[i] = "$" THEN arg ELSE <<tmpl[i]>>])

RECURSIVE Captures(_, _)
\* url_re.captures_iter(msg): the URLs of the text, left to right
Captures(re, text) ==
    IF text = << >> THEN << >>
    ELSE IF Head(text) # WS /\ IsMatch(re, Head(text))
         THEN <<Head(text)>> \o Captures(re, Tail(text))
         ELSE Captures(re, Tail(text))

Blacklisted(cfg, url) ==
    \E i \in 1..Len(cfg.raw.url_blacklist) : StartsWith(url, cfg.raw.url_blacklist[i])

UtcTz == <<"U", "T", "C">>

WildOr(opt, default) == IF opt.some THEN opt.val ELSE default

\* a scan that asks for the title before it logs the URL
UrlOpsTitleFirst(cfg, url, channel, nick, ts) ==
    (IF GetWild(cfg.raw.url_fetch_channels, channel) = Some(TRUE)
     THEN << Op("UrlTitle", <<url, channel>>) >>
     ELSE << >>)
    \o (IF GetWild(cfg.raw.url_log_channels, channel) = Some(TRUE)
        THEN << Op("UrlLog", <<cfg.raw.url_log_db, url, channel, nick, ts>>) >>
        ELSE << >>)

\* a scan that enqueues the log of a URL before its duplicate check
UrlOpsLogFirst(cfg, url, channel, nick, ts) ==
    IF GetWild(cfg.raw.url_log_channels, channel) = Some(TRUE)
    THEN << Op("UrlLog", <<cfg.raw.url_log_db, url, channel, nick, ts>>) >>
         \o (IF GetWild(cfg.raw.url_dup_complain_channels, channel) = Some(TRUE)
             THEN << Op("UrlCheck",
                        <<cfg.raw.url_log_db, url, channel,
                          WildOr(GetWild(cfg.rt.url_dup_tz, channel), UtcTz),
                          WildOr(GetWild(cfg.raw.url_dup_expire_days, channel), 7)>>) >>
             ELSE << >>)
    ELSE << >>

\* the ops one detected URL puts on the op queue, in order
UrlOps(cfg, url, channel, nick, ts) ==
    (IF GetWild(cfg.raw.url_log_channels, channel) = Some(TRUE)
     THEN (IF GetWild(cfg.raw.url_dup_complain_channels, channel) = Some(TRUE)
           THEN << Op("UrlCheck",
                      <<cfg.raw.url_log_db, url, channel,
                        WildOr(GetWild(cfg.rt.url_dup_tz, channel), UtcTz),
                        WildOr(GetWild(cfg.raw.url_dup_expire_days, channel), 7)>>) >>
           ELSE << >>)
          \o << Op("UrlLog", <<cfg.raw.url_log_db, url, channel, nick, ts>>) >>
     ELSE << >>)
    \o (IF GetWild(cfg.raw.url_fetch_channels, channel) = Some(TRUE)
        THEN << Op("UrlTitle", <<url, channel>>) >>
        ELSE << >>)
    \o (IF /\ GetWild(cfg.raw.url_mut_channels, channel) = Some(TRUE)
           /\ ReMutApply(cfg.rt.url_mut_re, url).some
        THEN << Op("UrlTitle", <<ReMutApply(cfg.rt.url_mut_re, url).val[2], channel>>) >>
        ELSE << >>)

\* a rewrite that announces the URL as it was posted
UrlMsgsAsPosted(cfg, url, channel) ==
    IF /\ GetWild(cfg.raw.url_mut_channels, channel) = Some(TRUE)
       /\ ReMutApply(cfg.rt.url_mut_re, url).some
    THEN << Msg(channel, <<url>>) >>
    ELSE << >>

\* the messages one detected URL puts on the msg queue
UrlMsgs(cfg, url, channel) ==
    IF /\ GetWild(cfg.raw.url_mut_channels, channel) = Some(TRUE)
       /\ ReMutApply(cfg.rt.url_mut_re, url).some
    THEN << Msg(channel, <<ReMutApply(cfg.rt.url_mut_re, url).val[2]>>) >>
    ELSE << >>

RECURSIVE ScanUrlsStops(_, _, _, _, _)
\* a loop that a blacklisted URL ends
ScanUrlsStops(w, urls, channel, nick, ts) ==
    IF urls = << >> THEN w
    ELSE IF Blacklisted(w.config, Head(urls))
         THEN w
         ELSE ScanUrlsStops([w EXCEPT
                          !.ops = @ \o UrlOps(w.config, Head(urls), channel, nick, ts),
                          !.msgs = @ \o UrlMsgs(w.config, Head(urls), channel)],
                       Tail(urls), channel, nick, ts)

RECURSIVE ScanUrls(_, _, _, _, _)
\* the loop over the detected URLs; a blacklisted one is skipped
ScanUrls(w, urls, channel, nick, ts) ==
    IF urls = << >> THEN w
    ELSE IF Blacklisted(w.config, Head(urls))
         THEN ScanUrls(w, Tail(urls), channel, nick, ts)
         ELSE ScanUrls([w EXCEPT
                          !.ops = @ \o UrlOps(w.config, Head(urls), channel, nick, ts),
                          !.msgs = @ \o UrlMsgs(w.config, Head(urls), channel)],
                       Tail(urls), channel, nick, ts)

\* the templated-command test of handle_chanmsg: cmd is "!" and the name of
\* a configured command, and url_cmd_channels enables the channel
IsUrlCmd(cfg, channel, cmd) ==
    /\ StripBang(cmd).some
    /\ GetWild(cfg.raw.url_cmd_channels, channel) = Some(TRUE)
    /\ MapGet(cfg.raw.url_cmd_list, StripBang(cmd).val).some

\* the templated command: the URL is rendered and one UrlFetch is enqueued;
\* a rendering error is returned with `?`
ChanmsgUrlCmd(w, env, channel, cmd, args) ==
    IF env.render_ok
    THEN [res |-> "true",
          w |-> [w EXCEPT !.ops = Append(@, Op("UrlFetch",
                   <<Render(w.config.raw.url_cmd_list[StripBang(cmd).val].url_tmpl,
                            Flatten(args)),
                     channel,
                     w.config.raw.url_cmd_list[StripBang(cmd).val].output_filter>>))]]
    ELSE [res |-> "err", w |-> w]

\* the URL scan: true when the text holds a URL, blacklisted or not
ChanmsgScan(w, channel, nick, n, msg) ==
    [res |-> IF Captures(w.config.rt.url_re, msg) # << >> THEN "true" ELSE "false",
     w |-> ScanUrls(w, Captures(w.config.rt.url_re, msg), channel, nick, n)]

\* handle_chanmsg below the handler table
ChanmsgUnhandled(w, env, channel, nick, n, msg, cmd, args) ==
    IF IsUrlCmd(w.config, channel, cmd)
    THEN ChanmsgUrlCmd(w, env, channel, cmd, args)
    ELSE ChanmsgScan(w, channel, nick, n, msg)

\* a handle_chanmsg that goes on below the table when the handler returns
\* false
HandleChanmsgFallThrough(w, env, channel, nick, n, msg, cmd, args) ==
    LET r == Invoke("chan", w.handlers.chanmsg[cmd], env.res_chan, w, env.file, nick, n, cmd, args)
    IN IF MapGet(w.handlers.chanmsg, cmd).some
       THEN (IF r.res = "false"
             THEN ChanmsgUnhandled(r.w, env, channel, nick, n, msg, cmd, args) ELSE r)
       ELSE ChanmsgUnhandled(w, env, channel, nick, n, msg, cmd, args)

\* handle_chanmsg: the channel handler table, else a templated command,
\* else the URL scan
HandleChanmsg(w, env, channel, nick, n, msg, cmd, args) ==
    IF MapGet(w.handlers.chanmsg, cmd).some
    THEN Invoke("chan", w.handlers.chanmsg[cmd], env.res_chan, w, env.file, nick, n, cmd, args)
    ELSE ChanmsgUnhandled(w, env, channel, nick, n, msg, cmd, args)

\* ------------------------------------------------------------------------
\* Inbound events
\* ------------------------------------------------------------------------

\* number of inbound events the stream delivers
MaxEvents == 2

AlicePrefix == Some([nick |-> Alice, user |-> <<"a">>, host |-> <<"h">>])

BobPrefix == Some([nick |-> Bob, user |-> <<"b">>, host |-> <<"g">>])

BotPrefix == Some([nick |-> Bot, user |-> <<"b">>, host |-> <<"h">>])

Event(prefix, cmd, args) == [prefix |-> prefix, cmd |-> cmd, a |-> args]

\* private texts: the commands of both configurations
PrivateTexts ==
    { <<FileA.cmd_reload>>, <<FileB.cmd_reload>>,
      <<FileA.cmd_say, WS, ChanB, WS, <<"h", "i">>>>,
      <<FileB.cmd_say, WS, <<"h", "i">>>>,
      <<FileA.cmd_invite>> }

ChannelTexts ==
    { <<<<"s", "e", "e">>, WS, U1, WS, U2>>,
      <<<<"!", "w">>, WS, U2>>,
      <<ChanKeyword, WS, U1>> }

Events ==
    { Event(p, "PRIVMSG", <<Bot, t>>) : p \in {AlicePrefix, BobPrefix}, t \in PrivateTexts }
    \cup { Event(AlicePrefix, "PRIVMSG", <<ChanA, t>>) : t \in ChannelTexts }
    \cup { Event(BotPrefix, "NICK", <<Bot2>>),
           Event(AlicePrefix, "NICK", <<Bot2>>),
           Event(None, "PING", << >>) }

NoEvent == [prefix |-> None, cmd |-> "", a |-> << >>, my_nick |-> << >>]

\* what the outside world decides while one event is dispatched: the result
\* of the handler called from each table, the content of the configuration
\* file, and whether the template renders
DispatchEnv ==
    [res_priv : HandlerResults, res_open : HandlerResults, res_chan : HandlerResults,
     file : ConfigFiles, render_ok : BOOLEAN]

\* ------------------------------------------------------------------------
\* IrcBot::new and IrcBot::run
\* ------------------------------------------------------------------------

\* the state IrcBot::new returns, both consumers spawned and waiting
EngineStart ==
    /\ handlers = NoHandlers
    /\ state = [my_nick |-> Bot, msg_nick |-> NoneStr, msg_user |-> NoneStr,
                msg_host |-> NoneStr, msg_userhost |-> UserHost(NoneStr, NoneStr)]
    /\ op_q = << >> /\ msg_q = << >>
    /\ op_pc = "recv" /\ msg_pc = "recv"
    /\ op_cur = NoItem /\ msg_cur = NoItem
    /\ op_timer = 0 /\ msg_timer = 0
    /\ sent = << >>
    /\ logged = {}
    /\ disp_pc = "setup"
    /\ ev_n = 0
    /\ ev = NoEvent
    /\ calls = << >>
    /\ op_enq = 0 /\ msg_enq = 0
    /\ op_done = << >> /\ msg_done = << >>
    /\ op_idle = 0 /\ msg_idle = 0

EngineInit ==
    /\ config \in {BotConfigNew(f).cfg : f \in ValidFiles}
    /\ EngineStart

\* the embedding program registers its handlers before it calls run
Setup ==
    /\ disp_pc = "setup"
    /\ handlers' = Configure(config)
    /\ disp_pc' = "next"
    /\ UNCHANGED <<config, state, opVars, msgVars, sent, logged, ev_n, ev, calls>>
    /\ UNCHANGED otherVars

\* stream.next() yields event e: SenderContext is overwritten from the
\* prefix ("NONE" without one) and my_nick is copied
\* a run that leaves SenderContext alone when the event has no origin
SenderContextKept(st, prefix) ==
    IF prefix.some
    THEN [st EXCEPT !.msg_nick = prefix.val.nick, !.msg_user = prefix.val.user,
                    !.msg_host = prefix.val.host,
                    !.msg_userhost = UserHost(prefix.val.user, prefix.val.host)]
    ELSE st

\* the BotState run writes for an event with this prefix: the origin of
\* Prefix::Nickname(nick, user, host), "NONE" three times otherwise, and
\* format!("{msg_user}@{msg_host}")
SenderContext(st, prefix) ==
    LET nick == IF prefix.some THEN prefix.val.nick ELSE NoneStr
        user == IF prefix.some THEN prefix.val.user ELSE NoneStr
        host == IF prefix.some THEN prefix.val.host ELSE NoneStr
    IN [st EXCEPT !.msg_nick = nick, !.msg_user = user, !.msg_host = host,
                  !.msg_userhost = UserHost(user, host)]

RunNext(e) ==
    /\ disp_pc = "next"
    /\ ev_n < MaxEvents
    /\ state' = SenderContext(state, e.prefix)
    /\ ev' = [prefix |-> e.prefix, cmd |-> e.cmd, a |-> e.a, my_nick |-> state.my_nick]
    /\ ev_n' = ev_n + 1
    /\ calls' = << >>
    /\ disp_pc' = "observe"
    /\ UNCHANGED <<config, handlers, opVars, msgVars, sent, logged>>
    /\ UNCHANGED otherVars

\* the observers called for results rs: up to and including the first true
Observed(obs, rs) ==
    LET stop == {i \in 1..Len(obs) : rs[i] = "true"}
        last == IF stop = {} THEN Len(obs)
                ELSE CHOOSE i \in stop : \A j \in stop : i <= j
    IN [i \in 1..last |->
          [table |-> "observer", h |-> obs[i], res |-> rs[i], nick |-> state.msg_nick,
           priv_map |-> config.raw.privileged_nicks, cmd |-> << >>, args |-> << >>]]

\* for c in handlers_irc_cmd: if let Ok(true) = c(..).await { break }
RunObserve(rs) ==
    /\ disp_pc = "observe"
    /\ calls' = calls \o Observed(handlers.irc_cmd, rs)
    /\ disp_pc' = "dispatch"
    /\ UNCHANGED <<botVars, opVars, msgVars, sent, logged, ev_n, ev>>
    /\ UNCHANGED otherVars

\* the answers that the dispatch of the current event can depend on: the
\* configuration file is read by the reload command only, a template is
\* rendered for a channel message only
DispatchEnvFor ==
    IF ev.cmd # "PRIVMSG" THEN {}
    ELSE IF ev.a[1] = ev.my_nick
    THEN {e \in DispatchEnv :
            /\ e.res_chan = "true" /\ e.render_ok
            /\ (SplitOnce(ev.a[2]).cmd # config.raw.cmd_reload => e.file = FileA)}
    ELSE {e \in DispatchEnv :
            e.res_priv = "true" /\ e.res_open = "true" /\ e.file = FileA}

\* the world a handler starts from
World == [config |-> config, handlers |-> handlers, ops |-> << >>, msgs |-> << >>,
          logged |-> logged, calls |-> calls]

\* handle_privmsg for a message to my_nick, handle_chanmsg otherwise
Routed(env) ==
    IF ev.a[1] = ev.my_nick
    THEN HandlePrivmsg(World, env, state.msg_nick, ev_n,
                       SplitOnce(ev.a[2]).cmd, SplitOnce(ev.a[2]).args)
    ELSE HandleChanmsg(World, env, ev.a[1], state.msg_nick, ev_n, ev.a[2],
                       SplitOnce(ev.a[2]).cmd, SplitOnce(ev.a[2]).args)

\* where run continues after a handler has returned res
AfterHandlerStops(res) == IF res = "err" THEN "returned_err" ELSE "next"

AfterHandler(res) == "next"

\* Command::PRIVMSG: the handler's Err is logged and the loop goes on
RunPrivmsg(env) ==
    /\ disp_pc = "dispatch"
    /\ ev.cmd = "PRIVMSG"
    /\ LET r == Routed(env) IN
         /\ config' = r.w.config
         /\ handlers' = r.w.handlers
         /\ op_q' = SendAll(op_q, r.w.ops, op_enq)
         /\ op_enq' = op_enq + Len(r.w.ops)
         /\ msg_q' = SendAll(msg_q, r.w.msgs, msg_enq)
         /\ msg_enq' = msg_enq + Len(r.w.msgs)
         /\ calls' = r.w.calls
         /\ logged' = IF r.res = "err"
                      THEN r.w.logged \cup {[who |-> "run", n |-> ev_n]}
                      ELSE r.w.logged
         /\ disp_pc' = AfterHandler(r.res)
    /\ UNCHANGED <<state, sent, ev_n, ev, op_pc, op_cur, op_timer, op_done, op_idle,
                   msg_pc, msg_cur, msg_timer, msg_done, msg_idle>>
    /\ UNCHANGED otherVars

\* a run that follows every nickname change it is told about
RunNickAny ==
    /\ disp_pc = "dispatch"
    /\ ev.cmd = "NICK"
    /\ state' = [state EXCEPT !.my_nick = ev.a[1]]
    /\ disp_pc' = "next"
    /\ UNCHANGED <<config, handlers, opVars, msgVars, sent, logged, ev_n, ev, calls>>
    /\ UNCHANGED otherVars

\* Command::NICK: a change of the bot's own nickname is tracked
RunNick ==
    /\ disp_pc = "dispatch"
    /\ ev.cmd = "NICK"
    /\ state' = IF state.msg_nick = ev.my_nick
                THEN [state EXCEPT !.my_nick = ev.a[1]] ELSE state
    /\ disp_pc' = "next"
    /\ UNCHANGED <<config, handlers, opVars, msgVars, sent, logged, ev_n, ev, calls>>
    /\ UNCHANGED otherVars

\* Command::Response and every other command
RunOther ==
    /\ disp_pc = "dispatch"
    /\ ev.cmd \notin {"PRIVMSG", "NICK"}
    /\ disp_pc' = "next"
    /\ UNCHANGED <<botVars, opVars, msgVars, sent, logged, ev_n, ev, calls>>
    /\ UNCHANGED otherVars

\* what stream.next() yields instead of an event
StreamOutcomes == {"end", "error"}

\* a run that reads on after a transport error
AfterStreamReadsOn(how) == IF how = "error" THEN "next" ELSE "returned_ok"

\* stream.next().await.transpose()?: Err(e) is returned with `?`, None ends
\* the while loop and run returns Ok(())
AfterStream(how) == IF how = "error" THEN "returned_err" ELSE "returned_ok"

\* the stream ends (None) or yields a transport error: run returns
RunReturn(how) ==
    /\ disp_pc = "next"
    /\ ev' = [prefix |-> None, cmd |-> how, a |-> << >>, my_nick |-> state.my_nick]
    /\ disp_pc' = AfterStream(how)
    /\ UNCHANGED <<botVars, opVars, msgVars, sent, logged, ev_n, calls>>
    /\ UNCHANGED otherVars


\* SpecAcl is not running
AclIdle ==
    /\ acl_pc = "off"
    /\ acl_list = << >>
    /\ acl_text = << >>
    /\ acl_obj = [ok |-> FALSE]
    /\ acl_out = None

\* SpecUrl is not running
UrlIdle ==
    /\ url_pc = "off"
    /\ url_in = [fn |-> ""]
    /\ url_out = None

\* an RwLock nobody holds
Unlocked == [r |-> 0, w |-> FALSE]

NoCall == [table |-> "", h |-> "", pc |-> ""]

\* SpecLock is not running
LockIdle ==
    /\ h_lock = Unlocked
    /\ c_lock = Unlocked
    /\ lk_i = 0
    /\ lk_call = NoCall
    /\ lk_task = "off"
    /\ lk_new = None
    /\ lk_start = None
    /\ lk_reads = {}

\* the statement-level specifications are not running
\* no url has been logged, the clock stands at 0
DbIdle ==
    db = [rows |-> << >>, now |-> 0, pc |-> "idle", retry |-> 0, rowcnt |-> 0,
          tries |-> 0, inserted |-> FALSE, old |-> [kind |-> "none"],
          posted |-> {}, firsts |-> {}, origin |-> {}, resp |-> None]

RestIdle == LockIdle /\ DbIdle

\* the IrcState never_gonna_give_you_up builds from configuration cfg
NewIrcState(cfg) ==
    [bot_cfg |-> cfg, mynick |-> Bot, msg_nick |-> NoneStr, msg_user |-> NoneStr,
     msg_host |-> NoneStr, userhost |-> NoneStr \o <<"@">> \o NoneStr]

\* SpecMain is not running
MainIdle ==
    /\ istate = NewIrcState(config)
    /\ main_pc = "off"

Init == EngineInit /\ AclIdle /\ UrlIdle /\ MainIdle /\ RestIdle

\* the stream yields some event
StreamNext == \E e \in Events : RunNext(e)

\* the observers answer somehow
Observers == \E rs \in [1..Len(handlers.irc_cmd) -> HandlerResults] : RunObserve(rs)

\* the message is dispatched while the outside world answers somehow
DispatchPrivmsg == \E env \in DispatchEnvFor : RunPrivmsg(env)

StreamEnd == \E how \in StreamOutcomes : RunReturn(how)

Dispatcher ==
    \/ Setup
    \/ StreamNext
    \/ Observers
    \/ DispatchPrivmsg
    \/ RunNick
    \/ RunOther
    \/ StreamEnd

\* the op is executed while the outside world answers somehow
OpExec == \E env \in ExecEnvFor(op_cur) : OpFinish(env)

\* the transport takes the message or rejects it
MsgExec == \E ok \in BOOLEAN : MsgFinish(ok)

TimePasses == \E d \in TickSteps : Tick(d)

Consumers ==
    \/ OpRecv
    \/ OpExec
    \/ OpWake
    \/ MsgRecv
    \/ MsgExec
    \/ MsgWake
    \/ TimePasses

Next == Dispatcher

Spec == Init /\ [][Next]_vars

\* ------------------------------------------------------------------------
\* SpecQueue: new_op / new_msg called by any task, the two queue consumers
\* and the passing of time
\* ------------------------------------------------------------------------

\* most items handed to new_op and new_msg, together
MaxItems == 3

\* the ops handed to new_op
QueueOps ==
    { Op("Invite", <<Alice, ChanA>>),
      Op("UrlTitle", <<U1, ChanA>>),
      Op("UrlFetch", <<U1, ChanA, <<"t">>>>),
      Op("UrlCheck", <<FileB.url_log_db, U1, ChanA, UtcTz, 7>>) }

\* the messages handed to new_msg
QueueMsgs == { Msg(ChanA, << <<"h", "i">> >>) }

\* new_op: self.op_sender.send(op)
NewOp(op) ==
    /\ op_enq + msg_enq < MaxItems
    /\ op_q' = SendAll(op_q, <<op>>, op_enq)
    /\ op_enq' = op_enq + 1
    /\ UNCHANGED <<botVars, msgVars, dispVars, sent, logged,
                   op_pc, op_cur, op_timer, op_done, op_idle>>
    /\ UNCHANGED otherVars

\* new_msg: self.msg_sender.send(IrcMsg { target, msg })
NewMsg(m) ==
    /\ op_enq + msg_enq < MaxItems
    /\ msg_q' = SendAll(msg_q, <<m>>, msg_enq)
    /\ msg_enq' = msg_enq + 1
    /\ UNCHANGED <<botVars, opVars, dispVars, sent, logged,
                   msg_pc, msg_cur, msg_timer, msg_done, msg_idle>>
    /\ UNCHANGED otherVars

CallNewOp == \E op \in QueueOps : NewOp(op)

CallNewMsg == \E m \in QueueMsgs : NewMsg(m)

Producers ==
    \/ CallNewOp
    \/ CallNewMsg

QueueNext == Producers \/ Consumers

SpecQueue == Init /\ [][QueueNext]_vars

\* ------------------------------------------------------------------------
\* SpecMain: bin/sjmb.rs, the stand-alone main loop.  One task reads the
\* stream and runs the command handlers, which talk to the transport
\* themselves (st.irc.send_*).
\* ------------------------------------------------------------------------

SayWord == <<"s", "a", "y">>

NickWord == <<"n", "i", "c", "k">>

ReloadWord == <<"r", "e", "l", "o", "a", "d">>

DumpAclWord == <<"m", "o", "d", "e", "_", "o", "_", "a", "c", "l">>

\* "*** Reload failed."
ReloadFailedMark == << <<"*", "*", "*">> >>

\* "My +o ACL:"
AclHeadText == << <<"A", "C", "L", ":">> >>

\* "<EOF>"
AclEofText == << <<"<", "E", "O", "F", ">">> >>

\* msg.strip_prefix("<word> ")
StripWord(text, word) ==
    IF Len(text) >= 2 /\ text[1] = word /\ text[2] = WS
    THEN Some(SubSeq(text, 3, Len(text)))
    ELSE None

\* what a handler does up to its return: res is Ok(true) / Ok(false) / Err
\* when every transport call succeeds, cmds are the transport calls it makes
\* in order, cfg is st.bot_cfg when it returns
MainPlan(res, cmds, cfg) == [res |-> res, cmds |-> cmds, cfg |-> cfg]

\* mode_v
ModeV(channel, nick) == <<"MODE", channel, "+v", nick>>

\* mode_o
ModeO(channel, nick) == <<"MODE", channel, "+o", nick>>

\* a "say " branch that ignores a leading channel name
MainSayDefaultOnly(st, say) ==
    MainPlan("true", << <<"PRIVMSG", st.bot_cfg.raw.channel, say>> >>, st.bot_cfg)

\* handle_cmd_privileged, the "say " branch
MainSay(st, say) ==
    IF say # << >> /\ Head(say) # WS /\ Head(Head(say)) = "#" /\ WsPositions(say) # {}
    THEN MainPlan("true",
                  << <<"PRIVMSG", Flatten(SubSeq(say, 1, FirstWs(say) - 1)),
                       SubSeq(say, FirstWs(say) + 1, Len(say))>> >>,
                  st.bot_cfg)
    ELSE MainPlan("true", << <<"PRIVMSG", st.bot_cfg.raw.channel, say>> >>, st.bot_cfg)

\* handle_cmd_privileged, the "reload" branch: BotConfig::new on file
\* a reload branch that keeps a failed build to itself
MainReloadSilent(st, file) ==
    IF BotConfigNew(file).ok
    THEN MainPlan("true", << <<"PRIVMSG", st.msg_nick, ReloadOkText>> >>,
                  BotConfigNew(file).cfg)
    ELSE MainPlan("true", << >>, st.bot_cfg)

MainReload(st, file) ==
    IF BotConfigNew(file).ok
    THEN MainPlan("true", << <<"PRIVMSG", st.msg_nick, ReloadOkText>> >>,
                  BotConfigNew(file).cfg)
    ELSE MainPlan("true",
                  << <<"PRIVMSG", st.msg_nick, ReloadFailedText>>,
                     <<"PRIVMSG", st.msg_nick, ReloadFailedMark>> >>,
                  st.bot_cfg)

\* handle_cmd_privileged, the "mode_o_acl" branch
MainDumpAcl(st) ==
    MainPlan("true",
             << <<"PRIVMSG", st.msg_nick, AclHeadText>> >>
             \o [i \in 1..Len(st.bot_cfg.rt.mode_o_acl_rt.acl_str) |->
                   <<"PRIVMSG", st.msg_nick, <<st.bot_cfg.rt.mode_o_acl_rt.acl_str[i]>> >>]
             \o << <<"PRIVMSG", st.msg_nick, AclEofText>> >>,
             st.bot_cfg)

\* handle_cmd_privileged: "nick " sends NICK and falls through to Ok(false)
MainCmdPrivileged(st, msg, file) ==
    IF StripWord(msg, SayWord).some THEN MainSay(st, StripWord(msg, SayWord).val)
    ELSE IF StripWord(msg, NickWord).some
         THEN MainPlan("false", << <<"NICK", Flatten(StripWord(msg, NickWord).val)>> >>,
                       st.bot_cfg)
    ELSE IF Flatten(msg) = ReloadWord THEN MainReload(st, file)
    ELSE IF Flatten(msg) = DumpAclWord THEN MainDumpAcl(st)
    ELSE MainPlan("false", << >>, st.bot_cfg)

\* a handle_cmd_public that gives +o to whoever asks
MainCmdPublicOpsAll(st, msg) ==
    IF Flatten(msg) = st.bot_cfg.raw.cmd_invite
    THEN MainPlan("true", << <<"INVITE", st.msg_nick, st.bot_cfg.raw.channel>> >>, st.bot_cfg)
    ELSE IF Flatten(msg) = st.bot_cfg.raw.cmd_mode_v
    THEN MainPlan("true", << ModeV(st.bot_cfg.raw.channel, st.msg_nick) >>, st.bot_cfg)
    ELSE IF Flatten(msg) = st.bot_cfg.raw.cmd_mode_o
    THEN MainPlan("true", << ModeO(st.bot_cfg.raw.channel, st.msg_nick) >>, st.bot_cfg)
    ELSE MainPlan("false", << >>, st.bot_cfg)

\* handle_cmd_public
MainCmdPublic(st, msg) ==
    IF Flatten(msg) = st.bot_cfg.raw.cmd_invite
    THEN MainPlan("true", << <<"INVITE", st.msg_nick, st.bot_cfg.raw.channel>> >>, st.bot_cfg)
    ELSE IF Flatten(msg) = st.bot_cfg.raw.cmd_mode_v
    THEN MainPlan("true", << ModeV(st.bot_cfg.raw.channel, st.msg_nick) >>, st.bot_cfg)
    ELSE IF Flatten(msg) = st.bot_cfg.raw.cmd_mode_o
    THEN IF ReMatch(st.bot_cfg.rt.mode_o_acl_rt, st.userhost).some
         THEN MainPlan("true", << ModeO(st.bot_cfg.raw.channel, st.msg_nick) >>, st.bot_cfg)
         ELSE MainPlan("true", << ModeV(st.bot_cfg.raw.channel, st.msg_nick) >>, st.bot_cfg)
    ELSE MainPlan("false", << >>, st.bot_cfg)

\* a test that takes "*" as the default for every nickname
MainNickPrivilegedWild(st) ==
    GetWild(st.bot_cfg.raw.privileged_nicks, st.msg_nick) = Some(TRUE)

\* if let Some(true) = cfg.privileged_nicks.get(&st.msg_nick)
MainNickPrivileged(st) ==
    MapGet(st.bot_cfg.raw.privileged_nicks, st.msg_nick) = Some(TRUE)

\* handle_private_msg: the privileged commands for a privileged nick, then
\* the public ones
MainPrivateMsg(st, msg, file) ==
    LET p == IF MainNickPrivileged(st)
             THEN MainCmdPrivileged(st, msg, file)
             ELSE MainPlan("false", << >>, st.bot_cfg)
        q == MainCmdPublic([st EXCEPT !.bot_cfg = p.cfg], msg)
    IN IF p.res = "true" THEN p
       ELSE MainPlan(q.res, p.cmds \o q.cmds, q.cfg)

\* handle_channel_msg, the url command branch: "!cmd arg"
MainUrlCmd(st, channel, msg, render_ok, fetch) ==
    IF ~render_ok \/ fetch.kind = "err" THEN MainPlan("err", << >>, st.bot_cfg)
    ELSE MainPlan("true",
                  [i \in 1..(IF fetch.kind = "text" THEN Len(fetch.caps) ELSE 0) |->
                     <<"PRIVMSG", channel,
                       <<Tail(Head(msg))>> \o Tail(msg)
                         \o <<WS, <<"-", "-", ">">>, WS, fetch.caps[i]>> >>],
                  st.bot_cfg)

\* handle_channel_msg, the title of one detected URL
MainUrlTitle(channel, url, fetch) ==
    IF fetch.kind = "text" /\ fetch.title.some /\ Flatten(fetch.title.val) # url
    THEN << <<"PRIVMSG", channel, Quoted(fetch.title.val)>> >>
    ELSE << >>

\* handle_channel_msg
MainChannelMsg(st, channel, msg, render_ok, fetch) ==
    IF /\ StripBang(Head(msg)).some
       /\ WsPositions(msg) # {}
       /\ MapGet(st.bot_cfg.raw.url_cmd_list, StripBang(SplitOnce(msg).cmd).val).some
    THEN MainUrlCmd(st, channel, msg, render_ok, fetch)
    ELSE IF MapGet(st.bot_cfg.raw.url_fetch_channels, channel) = Some(TRUE)
    THEN MainPlan(IF Captures(st.bot_cfg.rt.url_re, msg) # << >> THEN "true" ELSE "false",
                  Flatten([i \in 1..Len(Captures(st.bot_cfg.rt.url_re, msg)) |->
                             MainUrlTitle(channel, Captures(st.bot_cfg.rt.url_re, msg)[i], fetch)]),
                  st.bot_cfg)
    ELSE MainPlan("false", << >>, st.bot_cfg)

\* a handle_join that does not look at who joined
MainHandleJoinSelfToo(st, ch) ==
    IF ReMatch(st.bot_cfg.rt.auto_o_acl_rt, st.userhost).some
    THEN MainPlan("true", << ModeO(ch, st.msg_nick) >>, st.bot_cfg)
    ELSE MainPlan("false", << >>, st.bot_cfg)

\* handle_join
MainHandleJoin(st, ch) ==
    IF st.msg_nick = st.mynick THEN MainPlan("false", << >>, st.bot_cfg)
    ELSE IF ReMatch(st.bot_cfg.rt.auto_o_acl_rt, st.userhost).some
    THEN MainPlan("true", << ModeO(ch, st.msg_nick) >>, st.bot_cfg)
    ELSE MainPlan("false", << >>, st.bot_cfg)

MainPrivateTexts ==
    { <<ReloadWord>>, <<SayWord, WS, ChanB, WS, <<"h", "i">>>>, <<SayWord, WS, <<"h", "i">>>>,
      <<NickWord, WS, Bot2>>, <<DumpAclWord>>, <<FileA.cmd_invite>>,
      <<FileA.cmd_mode_v>>, <<FileA.cmd_mode_o>> }

MainEvents ==
    { Event(p, "PRIVMSG", <<Bot, t>>) : p \in {AlicePrefix, BobPrefix}, t \in MainPrivateTexts }
    \cup { Event(AlicePrefix, "PRIVMSG", <<ChanA, t>>) : t \in ChannelTexts }
    \cup { Event(p, "JOIN", <<ChanA>>) : p \in {AlicePrefix, BobPrefix, BotPrefix} }
    \cup { Event(BotPrefix, "NICK", <<Bot2>>),
           Event(AlicePrefix, "NICK", <<Bot2>>),
           Event(None, "PING", << >>) }

\* what the outside world decides while one event is handled
MainEnv ==
    [tx_fail : 0..MaxCaps, file : {FileA, FileB, FileBadAcl}, render_ok : BOOLEAN,
     fetch : FetchResults]

\* the answers the handling of event e can depend on
MainEnvFor(e) ==
    IF e.cmd = "PRIVMSG" /\ e.a[1] = istate.mynick
    THEN {v \in MainEnv : v.render_ok /\ v.fetch.kind = "err"
                          /\ (Flatten(e.a[2]) # ReloadWord => v.file = FileA)}
    ELSE IF e.cmd = "PRIVMSG"
    THEN {v \in MainEnv : v.file = FileA /\ v.tx_fail <= 1
                          /\ (v.fetch.kind = "text" =>
                                v.fetch.title.some = (v.fetch.caps = << >>))}
    ELSE {v \in MainEnv : v.file = FileA /\ v.render_ok /\ v.fetch.kind = "err"
                          /\ v.tx_fail <= 1}

MainInit ==
    /\ EngineInit
    /\ AclIdle
    /\ UrlIdle
    /\ RestIdle
    /\ istate = NewIrcState(config)
    /\ main_pc = "loop"

\* istate after the sender of event e has been stored
Taken(e) ==
    LET nick == IF e.prefix.some THEN e.prefix.val.nick ELSE NoneStr
        user == IF e.prefix.some THEN e.prefix.val.user ELSE NoneStr
        host == IF e.prefix.some THEN e.prefix.val.host ELSE NoneStr
    IN [istate EXCEPT !.msg_nick = nick, !.msg_user = user, !.msg_host = host,
                      !.userhost = UserHost(user, host)]

\* the handler planned by p runs while the transport rejects call number
\* tx_fail: the calls before it are made, an Err is logged by the loop
MainRun(st, p, tx_fail) ==
    LET r == Attempt([err |-> p.res = "err", cmds |-> p.cmds], tx_fail) IN
      /\ istate' = [st EXCEPT !.bot_cfg = p.cfg]
      /\ sent' = sent \o TxAll("main", ev_n + 1, r.sends)
      /\ logged' = IF r.err THEN logged \cup {[who |-> "main", n |-> ev_n + 1]} ELSE logged
      /\ ev_n' = ev_n + 1
      /\ UNCHANGED <<main_pc, botVars, opVars, msgVars, disp_pc, ev, calls>>
      /\ UNCHANGED <<aclVars, urlVars, restVars>>

\* Command::JOIN
MainJoin(e) ==
    /\ main_pc = "loop" /\ ev_n < MaxEvents
    /\ e.cmd = "JOIN"
    /\ \E env \in MainEnvFor(e) :
         MainRun(Taken(e), MainHandleJoin(Taken(e), e.a[1]), env.tx_fail)

\* Command::PRIVMSG
MainPrivmsg(e) ==
    /\ main_pc = "loop" /\ ev_n < MaxEvents
    /\ e.cmd = "PRIVMSG"
    /\ \E env \in MainEnvFor(e) :
         MainRun(Taken(e),
                 IF e.a[1] = istate.mynick
                 THEN MainPrivateMsg(Taken(e), e.a[2], env.file)
                 ELSE MainChannelMsg(Taken(e), e.a[1], e.a[2], env.render_ok, env.fetch),
                 env.tx_fail)

\* Command::NICK
MainNick(e) ==
    /\ main_pc = "loop" /\ ev_n < MaxEvents
    /\ e.cmd = "NICK"
    /\ istate' = IF Taken(e).msg_nick = istate.mynick
                 THEN [Taken(e) EXCEPT !.mynick = e.a[1]] ELSE Taken(e)
    /\ ev_n' = ev_n + 1
    /\ UNCHANGED <<main_pc, botVars, opVars, msgVars, disp_pc, ev, calls, sent, logged>>
    /\ UNCHANGED <<aclVars, urlVars, restVars>>

\* Command::Response and every other command
MainOther(e) ==
    /\ main_pc = "loop" /\ ev_n < MaxEvents
    /\ e.cmd \notin {"JOIN", "PRIVMSG", "NICK"}
    /\ istate' = Taken(e)
    /\ ev_n' = ev_n + 1
    /\ UNCHANGED <<main_pc, botVars, opVars, msgVars, disp_pc, ev, calls, sent, logged>>
    /\ UNCHANGED <<aclVars, urlVars, restVars>>

\* the stream ends (Ok) or yields a transport error (Err)
MainReturn(how) ==
    /\ main_pc = "loop"
    /\ main_pc' = how
    /\ UNCHANGED <<istate, engineVars>>
    /\ UNCHANGED <<aclVars, urlVars, restVars>>

OnJoin == \E e \in MainEvents : MainJoin(e)

OnPrivmsg == \E e \in MainEvents : MainPrivmsg(e)

OnNick == \E e \in MainEvents : MainNick(e)

OnOther == \E e \in MainEvents : MainOther(e)

OnStreamEnd == \E how \in {"returned_ok", "returned_err"} : MainReturn(how)

MainNext ==
    \/ OnJoin
    \/ OnPrivmsg
    \/ OnNick
    \/ OnOther
    \/ OnStreamEnd

SpecMain == MainInit /\ [][MainNext]_vars

\* ------------------------------------------------------------------------
\* SpecAcl: ReAcl::new and ReAcl::re_match on every short rule list
\* ------------------------------------------------------------------------

\* the engine is not running
EngineIdle ==
    /\ EngineInit
    /\ config = BotConfigNew(FileA).cfg

AclInit ==
    /\ acl_pc = "new"
    /\ acl_list \in SeqsUpTo(AclPatterns, MaxAclLen)
    /\ acl_text \in Identities
    /\ acl_obj = [ok |-> FALSE]
    /\ acl_out = None
    /\ EngineIdle
    /\ UrlIdle
    /\ MainIdle
    /\ RestIdle

\* ReAcl::new(&list)
AclNew ==
    /\ acl_pc = "new"
    /\ acl_obj' = ReAclNew(acl_list)
    /\ acl_pc' = IF acl_obj'.ok THEN "match" ELSE "failed"
    /\ UNCHANGED <<acl_list, acl_text, acl_out, engineVars, mainVars, urlVars, restVars>>

\* acl.re_match(text)
AclMatch ==
    /\ acl_pc = "match"
    /\ acl_out' = ReMatch(acl_obj, acl_text)
    /\ acl_pc' = "done"
    /\ UNCHANGED <<acl_list, acl_text, acl_obj, engineVars, mainVars, urlVars, restVars>>

AclNext == AclNew \/ AclMatch

SpecAcl == AclInit /\ [][AclNext]_vars

\* ------------------------------------------------------------------------
\* SpecUrl: get_wild, ReMut::new / re_mut and the URL scan of handle_chanmsg,
\* each called once on every small input
\* ------------------------------------------------------------------------

\* longest URL-rewrite table
MaxMutLen == 2

\* the maps whose keys are among ks, every value a boolean
BoolMaps(ks) == UNION {[D -> BOOLEAN] : D \in SUBSET ks}

\* a blacklisted URL (FileB.url_blacklist)
U9 == <<"h", "t", "t", "p", "s", ":", "9">>

MutPatterns == {<<"s", ":">>, <<"t">>, <<"^", "h">>, <<".", ":">>, BadPattern}

MutRepls == {<<":">>, <<"x", "t">>}

MutRules == {<<p, r>> : p \in MutPatterns, r \in MutRepls}

MutTexts == {U1, U2, <<"f", "t", "p">>}

FlagNames == {"log", "dup", "fetch", "mut"}

NoFlags == [n \in FlagNames |-> EmptyMap]

ScanTexts == { <<<<"s", "e", "e">>, WS, U1, WS, U2>>, <<U9, WS, U2>> }

UrlInput(fn, map, key, list, url, flags, text) ==
    [fn |-> fn, map |-> map, key |-> key, list |-> list, url |-> url,
     flags |-> flags, text |-> text]

UrlInputs ==
    {UrlInput("get_wild", m, k, << >>, << >>, NoFlags, << >>) :
        m \in BoolMaps({ChanA, ChanB, Star}), k \in {ChanA, ChanB}}
    \cup {UrlInput("re_mut", EmptyMap, ChanA, l, u, NoFlags, << >>) :
        l \in SeqsUpTo(MutRules, MaxMutLen), u \in MutTexts}
    \cup {UrlInput("scan", EmptyMap, ChanA, << >>, << >>, f, t) :
        f \in [FlagNames -> BoolMaps({ChanA, Star})], t \in ScanTexts}

\* the configuration of a scan: FileB with the four flag maps of the input
\* and a URL pattern that finds both "http" and "https"
ScanConfig(flags) ==
    BotConfigNew([FileB EXCEPT !.url_regex = FileA.url_regex,
                               !.url_log_channels = flags["log"],
                               !.url_dup_complain_channels = flags["dup"],
                               !.url_fetch_channels = flags["fetch"],
                               !.url_mut_channels = flags["mut"]]).cfg

ScanWorld(flags) ==
    [config |-> ScanConfig(flags), handlers |-> NoHandlers, ops |-> << >>,
     msgs |-> << >>, logged |-> {}, calls |-> << >>]

UrlInit ==
    /\ url_pc = "in"
    /\ url_in \in UrlInputs
    /\ url_out = None
    /\ EngineIdle
    /\ AclIdle
    /\ MainIdle
    /\ RestIdle

\* get_wild(&map, &key)
UrlGetWild ==
    /\ url_pc = "in"
    /\ url_in.fn = "get_wild"
    /\ url_out' = GetWild(url_in.map, url_in.key)
    /\ url_pc' = "done"
    /\ UNCHANGED <<url_in, engineVars, aclVars, mainVars, restVars>>

\* ReMut::new(&list)?.re_mut(&url)
UrlReMut ==
    /\ url_pc = "in"
    /\ url_in.fn = "re_mut"
    /\ url_out' = IF ReMutNew(url_in.list).ok
                  THEN ReMutApply(ReMutNew(url_in.list), url_in.url) ELSE None
    /\ url_pc' = IF ReMutNew(url_in.list).ok THEN "done" ELSE "failed"
    /\ UNCHANGED <<url_in, engineVars, aclVars, mainVars, restVars>>

\* the URL scan of handle_chanmsg on one channel message from Alice
UrlScan ==
    /\ url_pc = "in"
    /\ url_in.fn = "scan"
    /\ url_out' = ChanmsgScan(ScanWorld(url_in.flags), url_in.key, Alice, 1, url_in.text)
    /\ url_pc' = "done"
    /\ UNCHANGED <<url_in, engineVars, aclVars, mainVars, restVars>>

UrlNext == UrlGetWild \/ UrlReMut \/ UrlScan

SpecUrl == UrlInit /\ [][UrlNext]_vars

\* ------------------------------------------------------------------------
\* SpecLive: IrcBot::run on channel messages together with the two queue
\* consumers it feeds, the tasks scheduled fairly
\* ------------------------------------------------------------------------

\* number of channel messages the stream delivers in SpecLive
MaxChanEvents == 1

ChanEvents == {Event(AlicePrefix, "PRIVMSG", <<ChanA, t>>) : t \in ChannelTexts}

\* the stream yields a channel message
ChanStreamNext ==
    /\ ev_n < MaxChanEvents
    /\ \E e \in ChanEvents : RunNext(e)

LiveNext ==
    \/ Setup
    \/ ChanStreamNext
    \/ Observers
    \/ DispatchPrivmsg
    \/ Consumers

\* the runtime keeps polling a task that can run, and sleeps end
LiveFairness ==
    /\ WF_vars(OpRecv)
    /\ WF_vars(OpExec)
    /\ WF_vars(OpWake)
    /\ WF_vars(MsgRecv)
    /\ WF_vars(MsgExec)
    /\ WF_vars(MsgWake)
    /\ WF_vars(TimePasses)

SpecLive == Init /\ [][LiveNext]_vars /\ LiveFairness

\* ------------------------------------------------------------------------
\* SpecLock: IrcBot::run statement by statement, with the RwLocks of
\* IrcBot.handlers and IrcBot.config, and one other task that holds the
\* Arc<IrcBot> and calls its public methods.  disp_pc is the statement run
\* is at: "obs_lock" | "obs" | "classify" | "priv_check" | "priv_lookup" |
\* "open_lookup" | "chan_lookup" | "call" | "chan_cfg" | "chan_scan".
\* ------------------------------------------------------------------------

MaxLockEvents == 2

\* keyword of a privileged command whose handler registers handlers itself
RebuildWord == <<"r", "b">>

\* what the embedding program registers: the handlers of Configure, a second
\* observer and the self-registering command
LockRegistry(cfg) ==
    RegisterPrivmsgPriv(RegisterIrcCmd(Configure(cfg), "observer2"), RebuildWord, "rebuild")

LockEvents ==
    { Event(AlicePrefix, "PRIVMSG", <<Bot, t>>) :
        t \in { <<FileA.cmd_reload>>, <<FileA.cmd_say, WS, <<"h", "i">>>>,
                <<RebuildWord>>, <<FileA.cmd_invite>> } }
    \cup { Event(AlicePrefix, "PRIVMSG", <<ChanA, <<<<"s", "e", "e">>, WS, U1>>>>),
           Event(AlicePrefix, "PRIVMSG", <<ChanA, <<ChanKeyword, WS, U1>>>>),
           Event(None, "PING", << >>) }

\* the variables of both consumers
consumerVars == <<op_pc, op_cur, op_timer, op_done, op_idle,
                  msg_pc, msg_cur, msg_timer, msg_done, msg_idle, sent>>

\* the channels, the consumers and the transport
queueVars == <<opVars, msgVars, sent>>

\* the variables of the specifications that are not running
pureVars == <<aclVars, urlVars, mainVars, db>>

\* a handlers.write().await that has not been granted yet: tokio's RwLock is
\* write-preferring, a later read() waits behind it
HandlersWriterWaiting == lk_task = "rebuild" \/ lk_call.pc = "wait_write"

\* handlers.read().await can be granted
HandlersReadable == ~h_lock.w /\ ~HandlersWriterWaiting

\* config.read().await can be granted
ConfigReadable == ~c_lock.w

\* a dispatcher that drops its read guard before it awaits the handler
ReleasedBeforeCall(table) == 0

\* the read guards on IrcBot.handlers that run holds while it awaits a
\* handler of this table: the guard is a temporary of the `for` iterator
\* expression, of the `match` scrutinee and of the `if let` scrutinee, and
\* lives until that statement ends
HeldInCall(table) == 1

Acquire(lock, k) == [lock EXCEPT !.r = @ + k]

Release(lock, k) == [lock EXCEPT !.r = @ - k]

\* the embedding program registers its handlers and starts the other task
LockSetup ==
    /\ disp_pc = "setup"
    /\ handlers' = LockRegistry(config)
    /\ lk_task' = "idle"
    /\ disp_pc' = "next"
    /\ UNCHANGED <<config, state, queueVars, logged, ev_n, ev, calls>>
    /\ UNCHANGED <<h_lock, c_lock, lk_i, lk_call, lk_new, lk_start, lk_reads>>
    /\ UNCHANGED pureVars

\* stream.next() yields an event; SenderContext is written
LockStreamNext ==
    /\ disp_pc = "next"
    /\ ev_n < MaxLockEvents
    /\ \E e \in LockEvents :
         /\ state' = SenderContext(state, e.prefix)
         /\ ev' = [prefix |-> e.prefix, cmd |-> e.cmd, a |-> e.a, my_nick |-> state.my_nick]
    /\ ev_n' = ev_n + 1
    /\ calls' = << >>
    /\ lk_start' = Some(config)
    /\ lk_reads' = {}
    /\ disp_pc' = "obs_lock"
    /\ UNCHANGED <<config, handlers, queueVars, logged>>
    /\ UNCHANGED <<h_lock, c_lock, lk_i, lk_call, lk_task, lk_new>>
    /\ UNCHANGED pureVars

\* an observer loop that also stops at an observer that failed
ObserverStopsOnError(res) == res \in {"true", "err"}

\* if let Ok(true) = c(..).await { break; }
ObserverStops(res) == res = "true"

\* a run that takes an event an observer has handled as done
AfterObserversHandled(handled) == IF handled THEN "next" ELSE "classify"

\* the statement after the observer loop, reached by break or by its end
AfterObservers(handled) == "classify"

\* for c in self.handlers.read().await.handlers_irc_cmd.iter()
ObserversLock ==
    /\ disp_pc = "obs_lock"
    /\ HandlersReadable
    /\ h_lock' = Acquire(h_lock, HeldInCall("observer"))
    /\ lk_i' = 1
    /\ disp_pc' = "obs"
    /\ UNCHANGED <<botVars, queueVars, logged, ev_n, ev, calls>>
    /\ UNCHANGED <<c_lock, lk_call, lk_task, lk_new, lk_start, lk_reads>>
    /\ UNCHANGED pureVars

\* the loop calls the next observer, or ends and drops the guard
ObserversStep ==
    /\ disp_pc = "obs"
    /\ IF lk_i <= Len(handlers.irc_cmd)
       THEN /\ lk_call' = [table |-> "observer", h |-> handlers.irc_cmd[lk_i], pc |-> "run"]
            /\ disp_pc' = "call"
            /\ UNCHANGED h_lock
       ELSE /\ h_lock' = Release(h_lock, HeldInCall("observer"))
            /\ disp_pc' = AfterObservers(FALSE)
            /\ UNCHANGED lk_call
    /\ UNCHANGED <<botVars, queueVars, logged, ev_n, ev, calls>>
    /\ UNCHANGED <<c_lock, lk_i, lk_task, lk_new, lk_start, lk_reads>>
    /\ UNCHANGED pureVars

\* match message.command
Classify ==
    /\ disp_pc = "classify"
    /\ disp_pc' = CASE ev.cmd = "PRIVMSG" /\ ev.a[1] = ev.my_nick -> "priv_check"
                    [] ev.cmd = "PRIVMSG" /\ ev.a[1] # ev.my_nick -> "chan_lookup"
                    [] OTHER -> "next"
    /\ state' = IF ev.cmd = "NICK" /\ state.msg_nick = ev.my_nick
                THEN [state EXCEPT !.my_nick = ev.a[1]] ELSE state
    /\ UNCHANGED <<config, handlers, queueVars, logged, ev_n, ev, calls>>
    /\ UNCHANGED lockVars
    /\ UNCHANGED pureVars

\* handle_privmsg: matches!(self.config.read().await.privileged_nicks.get(&nick), Some(true));
\* the guard is dropped when the statement ends
PrivCheck ==
    /\ disp_pc = "priv_check"
    /\ ConfigReadable
    /\ lk_reads' = lk_reads \cup {config}
    /\ disp_pc' = IF NickIsPrivileged(config, state.msg_nick)
                  THEN "priv_lookup" ELSE "open_lookup"
    /\ UNCHANGED <<botVars, queueVars, logged, ev_n, ev, calls>>
    /\ UNCHANGED <<h_lock, c_lock, lk_i, lk_call, lk_task, lk_new, lk_start>>
    /\ UNCHANGED pureVars

LookupTable(pc) ==
    CASE pc = "priv_lookup" -> "priv"
      [] pc = "open_lookup" -> "open"
      [] pc = "chan_lookup" -> "chan"

TableOf(hs, table) ==
    CASE table = "priv" -> hs.privmsg_priv
      [] table = "open" -> hs.privmsg_open
      [] table = "chan" -> hs.chanmsg

\* where run goes when the keyword is not in the table
NotFound(table) ==
    CASE table = "priv" -> "open_lookup"
      [] table = "open" -> "next"
      [] table = "chan" -> "chan_cfg"

\* self.handlers.read().await.<table>.get(&cmd): a handler that is found is
\* called while the guard lives
Lookup ==
    /\ disp_pc \in {"priv_lookup", "open_lookup", "chan_lookup"}
    /\ HandlersReadable
    /\ LET table == LookupTable(disp_pc)
           cmd == SplitOnce(ev.a[2]).cmd
       IN IF cmd \in DOMAIN TableOf(handlers, table)
          THEN /\ h_lock' = Acquire(h_lock, HeldInCall(table))
               /\ lk_call' = [table |-> table, h |-> TableOf(handlers, table)[cmd], pc |-> "run"]
               /\ disp_pc' = "call"
          ELSE /\ disp_pc' = NotFound(table)
               /\ UNCHANGED <<h_lock, lk_call>>
    /\ UNCHANGED <<botVars, queueVars, logged, ev_n, ev, calls>>
    /\ UNCHANGED <<c_lock, lk_i, lk_task, lk_new, lk_start, lk_reads>>
    /\ UNCHANGED pureVars

\* the variables a handler body leaves alone unless it says otherwise
callFrame == <<h_lock, c_lock, lk_i, lk_task, lk_new, lk_start>>

\* a handler that touches neither the configuration nor the registry
\* returns Ok(true), Ok(false) or Err
HandlerPlain ==
    /\ disp_pc = "call"
    /\ lk_call.pc = "run"
    /\ lk_call.h \in {"observer", "observer2", "invite", "chan"}
    /\ \E r \in HandlerResults : lk_call' = [lk_call EXCEPT !.pc = r]
    /\ UNCHANGED <<botVars, queueVars, logged, dispVars>>
    /\ UNCHANGED <<callFrame, lk_reads>>
    /\ UNCHANGED pureVars

\* the say handler reads the configured channel and calls new_msg
HandlerSay ==
    /\ disp_pc = "call"
    /\ lk_call.pc = "run"
    /\ lk_call.h = "say"
    /\ ConfigReadable
    /\ lk_reads' = lk_reads \cup {config}
    /\ msg_q' = SendAll(msg_q, <<SayMsg(config, SplitOnce(ev.a[2]).args)>>, msg_enq)
    /\ msg_enq' = msg_enq + 1
    /\ lk_call' = [lk_call EXCEPT !.pc = "true"]
    /\ UNCHANGED <<botVars, opVars, consumerVars, logged, dispVars>>
    /\ UNCHANGED callFrame
    /\ UNCHANGED pureVars

\* the reload handler calls IrcBot::reload
HandlerReload ==
    /\ disp_pc = "call"
    /\ lk_call.pc = "run"
    /\ lk_call.h = "reload"
    /\ c_lock = Unlocked
    /\ \E f \in ConfigFiles :
         /\ config' = Reload(config, f, ev_n).config
         /\ logged' = logged \cup Reload(config, f, ev_n).logs
         /\ lk_call' = [lk_call EXCEPT !.pc = IF Reload(config, f, ev_n).ok
                                               THEN "true" ELSE "err"]
    /\ UNCHANGED <<handlers, state, queueVars, dispVars>>
    /\ UNCHANGED <<callFrame, lk_reads>>
    /\ UNCHANGED pureVars

\* a handler calls clear_handlers or a register_* method:
\* self.handlers.write().await
HandlerRebuild ==
    /\ disp_pc = "call"
    /\ lk_call.pc = "run"
    /\ lk_call.h = "rebuild"
    /\ lk_call' = [lk_call EXCEPT !.pc = "wait_write"]
    /\ UNCHANGED <<botVars, queueVars, logged, dispVars>>
    /\ UNCHANGED <<callFrame, lk_reads>>
    /\ UNCHANGED pureVars

\* the write guard on IrcBot.handlers is granted to who waits for it, the
\* registry is cleared and repopulated, and the guard is dropped
GrantWrite(who) ==
    /\ h_lock = Unlocked
    /\ \/ /\ who = "task"
          /\ lk_task = "rebuild"
          /\ lk_task' = "idle"
          /\ UNCHANGED lk_call
       \/ /\ who = "handler"
          /\ lk_call.pc = "wait_write"
          /\ lk_call' = [lk_call EXCEPT !.pc = "true"]
          /\ UNCHANGED lk_task
    /\ handlers' = LockRegistry(config)
    /\ UNCHANGED <<config, state, queueVars, logged, dispVars>>
    /\ UNCHANGED <<h_lock, c_lock, lk_i, lk_new, lk_start, lk_reads>>
    /\ UNCHANGED pureVars

HandlersWrite == \E who \in {"task", "handler"} : GrantWrite(who)

\* the handler's future completes: the call is recorded and run goes on
Return ==
    /\ disp_pc = "call"
    /\ lk_call.pc \in HandlerResults
    /\ calls' = Append(calls,
          [table |-> lk_call.table, h |-> lk_call.h, res |-> lk_call.pc,
           nick |-> state.msg_nick, priv_map |-> config.raw.privileged_nicks,
           cmd |-> IF lk_call.table = "observer" THEN << >> ELSE SplitOnce(ev.a[2]).cmd,
           args |-> IF lk_call.table = "observer" THEN << >> ELSE SplitOnce(ev.a[2]).args])
    /\ lk_call' = NoCall
    /\ LET t == lk_call.table
           r == lk_call.pc
           loops == t = "observer" /\ ~ObserverStops(r)
       IN /\ h_lock' = IF loops THEN h_lock ELSE Release(h_lock, HeldInCall(t))
          /\ lk_i' = IF loops THEN lk_i + 1 ELSE lk_i
          /\ disp_pc' = CASE loops -> "obs"
                          [] t = "observer" /\ ~loops -> AfterObservers(TRUE)
                          [] t = "priv" /\ r = "false" -> "open_lookup"
                          [] OTHER -> "next"
          /\ logged' = IF t # "observer" /\ r = "err"
                       THEN logged \cup {[who |-> "run", n |-> ev_n]} ELSE logged
    /\ UNCHANGED <<botVars, queueVars, ev_n, ev>>
    /\ UNCHANGED <<c_lock, lk_task, lk_new, lk_start, lk_reads>>
    /\ UNCHANGED pureVars

\* handle_chanmsg: let cfg = self.config.read().await; the guard lives to
\* the end of the function
ChanConfigLock ==
    /\ disp_pc = "chan_cfg"
    /\ ConfigReadable
    /\ c_lock' = Acquire(c_lock, 1)
    /\ lk_reads' = lk_reads \cup {config}
    /\ disp_pc' = "chan_scan"
    /\ UNCHANGED <<botVars, queueVars, logged, ev_n, ev, calls>>
    /\ UNCHANGED <<h_lock, lk_i, lk_call, lk_task, lk_new, lk_start>>
    /\ UNCHANGED pureVars

\* the URL command or the URL scan, read from cfg; then cfg is dropped
ChanScan ==
    /\ disp_pc = "chan_scan"
    /\ LET r == ChanmsgUnhandled(World, [render_ok |-> TRUE], ev.a[1], state.msg_nick,
                                 ev_n, ev.a[2], SplitOnce(ev.a[2]).cmd,
                                 SplitOnce(ev.a[2]).args)
       IN /\ op_q' = SendAll(op_q, r.w.ops, op_enq)
          /\ op_enq' = op_enq + Len(r.w.ops)
          /\ msg_q' = SendAll(msg_q, r.w.msgs, msg_enq)
          /\ msg_enq' = msg_enq + Len(r.w.msgs)
          /\ logged' = IF r.res = "err"
                       THEN logged \cup {[who |-> "run", n |-> ev_n]} ELSE logged
    /\ lk_reads' = lk_reads \cup {config}
    /\ c_lock' = Release(c_lock, 1)
    /\ disp_pc' = "next"
    /\ UNCHANGED <<botVars, consumerVars, ev_n, ev, calls>>
    /\ UNCHANGED <<h_lock, lk_i, lk_call, lk_task, lk_new, lk_start>>
    /\ UNCHANGED pureVars

\* the other task calls IrcBot::reload after the file has been changed into
\* another valid one: BotConfig::new(&config_file)
TaskReload ==
    /\ lk_task = "idle"
    /\ \E f \in ValidFiles :
         /\ Reload(config, f, ev_n).config # config
         /\ lk_new' = Some(Reload(config, f, ev_n).config)
    /\ lk_task' = "built"
    /\ UNCHANGED <<botVars, queueVars, logged, dispVars>>
    /\ UNCHANGED <<h_lock, c_lock, lk_i, lk_call, lk_start, lk_reads>>
    /\ UNCHANGED pureVars

\* *self.config.write().await = cfg; then the task goes on to rebuild the
\* registry with clear_handlers and register_*
TaskInstall ==
    /\ lk_task = "built"
    /\ c_lock = Unlocked
    /\ config' = lk_new.val
    /\ lk_new' = None
    /\ lk_task' = "rebuild"
    /\ UNCHANGED <<handlers, state, queueVars, logged, dispVars>>
    /\ UNCHANGED <<h_lock, c_lock, lk_i, lk_call, lk_start, lk_reads>>
    /\ UNCHANGED pureVars

LockNext ==
    \/ LockSetup
    \/ LockStreamNext
    \/ ObserversLock
    \/ ObserversStep
    \/ Classify
    \/ PrivCheck
    \/ Lookup
    \/ HandlerPlain
    \/ HandlerSay
    \/ HandlerReload
    \/ HandlerRebuild
    \/ HandlersWrite
    \/ Return
    \/ ChanConfigLock
    \/ ChanScan
    \/ TaskReload
    \/ TaskInstall

SpecLock == Init /\ [][LockNext]_vars

\* ------------------------------------------------------------------------
\* C3
\* ------------------------------------------------------------------------

MatchingRules(list, text) == {i \in 1..Len(list) : IsMatch(list[i], text)}

LowestMatch(list, text) ==
    CHOOSE i \in MatchingRules(list, text) :
        \A j \in MatchingRules(list, text) : i <= j

\* C3: for every rule list R that ReAcl::new accepts (the empty list
\* included) and every identity s, re_match(s) is Some((i, R[i])) with i the
\* lowest zero-based index whose pattern matches s, and None exactly when no
\* rule of R matches s.
C3_FirstMatchWins ==
    acl_pc = "done" =>
        IF MatchingRules(acl_list, acl_text) = {}
        THEN acl_out = None
        ELSE /\ acl_out.some
             /\ acl_out.val[1] = LowestMatch(acl_list, acl_text) - 1
             /\ acl_out.val[2] = acl_list[LowestMatch(acl_list, acl_text)]

\* a list in which two different rules match the identity and the first
\* matching rule is not the first rule of the list
C3_Witness ==
    /\ acl_pc = "done"
    /\ Cardinality(MatchingRules(acl_list, acl_text)) >= 2
    /\ acl_out.some
    /\ acl_out.val[1] = 1
    /\ acl_list[2] # acl_list[3]

\* ------------------------------------------------------------------------
\* C1
\* ------------------------------------------------------------------------

DoneIds(done) == [i \in 1..Len(done) |-> done[i].id]

UpTo(n) == [i \in 1..n |-> i]

\* the items of one queue in the order executed, executing, still queued
Lifeline(done, pc, cur, q) ==
    DoneIds(done) \o (IF pc = "exec" THEN <<cur.id>> ELSE << >>) \o Ids(q)

\* C1: in each of the two queues the items are executed strictly in the
\* order they were enqueued: the executions that have ended, the one
\* running (there is at most one, so an item starts only after its
\* predecessor has ended) and the items still queued are, in this order,
\* exactly the items in enqueue order.
C1_FifoPerQueue ==
    /\ Lifeline(op_done, op_pc, op_cur, op_q) = UpTo(op_enq)
    /\ Lifeline(msg_done, msg_pc, msg_cur, msg_q) = UpTo(msg_enq)

\* A has been executed, B is executing, C is waiting
C1_Witness ==
    /\ op_pc = "exec"
    /\ Len(op_done) = 1
    /\ Len(op_q) = 1

\* ------------------------------------------------------------------------
\* C2
\* ------------------------------------------------------------------------

\* C2: a handler of the privileged table is called only for a sender that
\* the privileged-sender map installed at that moment maps to true; any
\* other sender reaches the open table only.
C2_PrivilegedOnlyForListed ==
    \A i \in 1..Len(calls) :
        calls[i].table = "priv" =>
            MapGet(calls[i].priv_map, calls[i].nick) = Some(TRUE)

\* a privileged handler runs for Bob after an earlier reload has succeeded
C2_Witness ==
    /\ ev_n = MaxEvents
    /\ \E i \in 1..Len(calls) : calls[i].table = "priv" /\ calls[i].nick = Bob
    /\ \E j \in 1..Len(msg_q) : msg_q[j].msg = ReloadOkText

\* ------------------------------------------------------------------------
\* C4
\* ------------------------------------------------------------------------

ReloadFailures(log) == {l \in log : l.who = "reload"}

\* C4: a step in which a reload fails (the failure is logged) leaves the
\* installed configuration and the handler registry exactly as they were,
\* whatever made the build fail.
C4_FailedReloadKeepsConfig ==
    [][ReloadFailures(logged') # ReloadFailures(logged)
          => (config' = config /\ handlers' = handlers)]_vars

\* the reload of the first event failed and a command of the second event
\* has been carried out under the configuration that stayed
C4_Witness ==
    /\ [who |-> "reload", n |-> 1] \in logged
    /\ ev_n = 2
    /\ disp_pc = "next"
    /\ \E i \in 1..Len(calls) : calls[i].table = "open" /\ calls[i].res = "true"

\* ------------------------------------------------------------------------
\* C5
\* ------------------------------------------------------------------------

\* C5: when the dispatch of a private or channel message ends, run is back
\* at the head of its loop; a handler that returned an error was the last
\* handler called for the event and the error has been logged.
C5_HandlerErrorIsolated ==
    [][(disp_pc = "dispatch" /\ ev.cmd = "PRIVMSG") =>
         /\ disp_pc' = "next"
         /\ \A i \in 1..Len(calls') :
              (calls'[i].table # "observer" /\ calls'[i].res = "err") =>
                 /\ i = Len(calls')
                 /\ [who |-> "run", n |-> ev_n] \in logged']_vars

\* the handler of the first event failed, and so did one of the second
C5_Witness ==
    /\ ev_n = 2
    /\ disp_pc = "next"
    /\ [who |-> "run", n |-> 1] \in logged
    /\ calls # << >>
    /\ calls[Len(calls)].res = "err"
    /\ calls[Len(calls)].table = "priv"

\* ------------------------------------------------------------------------
\* C6
\* ------------------------------------------------------------------------

FailureLogged(who, done) ==
    \A i \in 1..Len(done) : done[i].err => [who |-> who, n |-> done[i].id] \in logged

NoRepeat(seq) == \A i, j \in 1..Len(seq) : seq[i] = seq[j] => i = j

\* C6: every failed execution has been logged, no item is executed twice or
\* is back on its queue after its execution, and each queue holds only what
\* new_op / new_msg put there: the items executed, executing and queued
\* are as many as were enqueued.
C6_FailedItemDropped ==
    /\ FailureLogged("op", op_done)
    /\ FailureLogged("msg", msg_done)
    /\ NoRepeat(Lifeline(op_done, op_pc, op_cur, op_q))
    /\ NoRepeat(Lifeline(msg_done, msg_pc, msg_cur, msg_q))
    /\ Len(Lifeline(op_done, op_pc, op_cur, op_q)) = op_enq
    /\ Len(Lifeline(msg_done, msg_pc, msg_cur, msg_q)) = msg_enq

\* an op failed and the consumer has executed the next one
C6_Witness ==
    /\ Len(op_done) >= 2
    /\ op_done[1].err
    /\ ~op_done[2].err

\* ------------------------------------------------------------------------
\* C7
\* ------------------------------------------------------------------------

\* C7: while an item is executed, at least the queue's delay has passed
\* since the execution of the previous item of that queue ended, whether
\* that one failed or not.
C7_ThrottleBetweenItems ==
    /\ (op_pc = "exec" /\ op_done # << >>) => op_idle >= IRC_OP_THROTTLE
    /\ (msg_pc = "exec" /\ msg_done # << >>) => msg_idle >= IRC_MSG_THROTTLE

\* a message is being sent after one that failed
C7_Witness ==
    /\ msg_pc = "exec"
    /\ msg_done # << >>
    /\ msg_done[Len(msg_done)].err

\* ------------------------------------------------------------------------
\* C8
\* ------------------------------------------------------------------------

\* C8: a consumer that has an item to take can take it, and one that is
\* executing can finish, whatever the other consumer and the other queue
\* are doing.
C8_ConsumersIndependent ==
    /\ (msg_pc = "recv" /\ msg_q # << >>) => ENABLED MsgRecv
    /\ msg_pc = "exec" => ENABLED MsgFinish(TRUE)
    /\ (op_pc = "recv" /\ op_q # << >>) => ENABLED OpRecv
    /\ op_pc = "exec" => ENABLED OpExec

\* a message is waiting while a title fetch is executing and another op is
\* pending
C8_Witness ==
    /\ msg_pc = "recv"
    /\ msg_q # << >>
    /\ op_pc = "exec"
    /\ op_cur.op = "UrlTitle"
    /\ op_q # << >>

\* ------------------------------------------------------------------------
\* C9
\* ------------------------------------------------------------------------

\* C9: every command handed to the transport was handed over by one of the
\* two queue consumers.
C9_OnlyConsumersSend ==
    \A i \in 1..Len(sent) : sent[i].by \in {"op", "msg"}

\* ------------------------------------------------------------------------
\* C10
\* ------------------------------------------------------------------------

\* C10: every chat line handed to the transport was handed over by the
\* MessageQueue consumer.
C10_RepliesViaMessageQueue ==
    \A i \in 1..Len(sent) : sent[i].cmd = "PRIVMSG" => sent[i].by = "msg"

\* ------------------------------------------------------------------------
\* C11
\* ------------------------------------------------------------------------

\* the handler calls the dispatch step adds to those of the observers
NewCalls == SubSeq(calls', Len(calls) + 1, Len(calls'))

CallTables(cs) == [i \in 1..Len(cs) |-> cs[i].table]

\* C11: in the dispatch of a private message with keyword k and remainder
\* r, a privileged sender's message reaches the privileged table first; a
\* privileged handler that returns true is the only handler called; when k
\* is not in the privileged table or its handler returns false, the open
\* table is tried with the same k and r; a sender that is not privileged
\* reaches the open table only.
C11_PrivilegedThenOpen ==
    [][(disp_pc = "dispatch" /\ ev.cmd = "PRIVMSG" /\ ev.a[1] = ev.my_nick) =>
        LET k == SplitOnce(ev.a[2]).cmd
            r == SplitOnce(ev.a[2]).args
            priv == NickIsPrivileged(config, state.msg_nick)
            inPriv == k \in DOMAIN handlers.privmsg_priv
            inOpen == k \in DOMAIN handlers.privmsg_open
            new == NewCalls
        IN /\ \A i \in 1..Len(new) : new[i].cmd = k /\ new[i].args = r
           /\ CallTables(new) \in {<< >>, <<"priv">>, <<"open">>, <<"priv", "open">>}
           /\ (priv /\ inPriv) =>
                 /\ new # << >>
                 /\ new[1].table = "priv"
                 /\ new[1].h = handlers.privmsg_priv[k]
                 /\ new[1].res = "true" => Len(new) = 1
                 /\ (new[1].res = "false" /\ inOpen) =>
                       /\ Len(new) = 2
                       /\ new[2].h = handlers.privmsg_open[k]
           /\ (~priv \/ ~inPriv) =>
                 /\ \A i \in 1..Len(new) : new[i].table = "open"
                 /\ inOpen => (Len(new) = 1 /\ new[1].h = handlers.privmsg_open[k])
                 /\ ~inOpen => new = << >>]_vars

\* a privileged sender's keyword was found in both tables: the privileged
\* handler returned false and the open handler was called after it
C11_Witness ==
    /\ disp_pc = "next"
    /\ Len(calls) >= 2
    /\ CallTables(SubSeq(calls, Len(calls) - 1, Len(calls))) = <<"priv", "open">>
    /\ calls[Len(calls) - 1].res = "false"
    /\ calls[Len(calls)].cmd = calls[Len(calls) - 1].cmd
    /\ calls[Len(calls)].args # << >>

\* ------------------------------------------------------------------------
\* C12
\* ------------------------------------------------------------------------

\* what the dispatch step appends to each queue
NewOps == SubSeq(op_q', Len(op_q) + 1, Len(op_q'))

NewMsgs == SubSeq(msg_q', Len(msg_q) + 1, Len(msg_q'))

OpKinds(ops) == {ops[i].op : i \in 1..Len(ops)}

UrlOpKinds == {"UrlFetch", "UrlCheck", "UrlLog", "UrlTitle"}

\* a channel message is being dispatched
ChanDispatch == disp_pc = "dispatch" /\ ev.cmd = "PRIVMSG" /\ ev.a[1] # ev.my_nick

\* route 1: the keyword is in the channel handler table; that handler alone
\* runs, its error is the error of the event, nothing of a templated command
\* or of a URL scan is enqueued
ChanRouteHandler(k) ==
    /\ Len(NewCalls) = 1
    /\ NewCalls[1].table = "chan"
    /\ NewCalls[1].h = handlers.chanmsg[k]
    /\ ([who |-> "run", n |-> ev_n] \in logged') <=> (NewCalls[1].res = "err")
    /\ OpKinds(NewOps) \cap UrlOpKinds = {}
    /\ NewMsgs = << >>

\* route 3: no handler runs and the queues receive what the URL scan of the
\* text enqueues
ChanRouteScan ==
    LET scan == ChanmsgScan(World, ev.a[1], state.msg_nick, ev_n, ev.a[2]).w
    IN /\ NewCalls = << >>
       /\ NewOps = Stamp(scan.ops, op_enq)
       /\ NewMsgs = Stamp(scan.msgs, msg_enq)

Scanned == url_pc = "done" /\ url_in.fn = "scan"

\* the detected URLs of the scanned text that the blacklist does not cover
ScannedUrls ==
    LET caps == Captures(ScanConfig(url_in.flags).rt.url_re, url_in.text)
    IN {caps[i] : i \in {j \in 1..Len(caps) :
                          ~Blacklisted(ScanConfig(url_in.flags), caps[j])}}

\* the flag of feature n resolves to true for the channel
FlagOn(n) == GetWild(url_in.flags[n], url_in.key) = Some(TRUE)

\* an op of this kind for URL u and the channel has been enqueued
Enqueued(kind, u) ==
    \E i \in 1..Len(url_out.w.ops) :
        /\ url_out.w.ops[i].op = kind
        /\ IF kind = "UrlTitle"
           THEN url_out.w.ops[i].a = <<u, url_in.key>>
           ELSE url_out.w.ops[i].a[2] = u /\ url_out.w.ops[i].a[3] = url_in.key

\* what the rewrite table makes of u
Rewrite(u) == ReMutApply(ScanConfig(url_in.flags).rt.url_mut_re, u)

\* the rewritten u has been announced on the channel and its title asked for
Reannounced(u) ==
    /\ Rewrite(u).some
    /\ \E i \in 1..Len(url_out.w.msgs) :
          url_out.w.msgs[i] = Msg(url_in.key, <<Rewrite(u).val[2]>>)
    /\ Enqueued("UrlTitle", Rewrite(u).val[2])

\* C13: for each detected URL that is not blacklisted, the duplicate check,
\* the history log, the title fetch and (for a URL some rewrite rule
\* matches) the rewrite-and-reannounce are each enqueued exactly when their
\* own flag resolves to true for the channel, whatever the other three
\* flags are; so a duplicate check is enqueued where the duplicate flag is
\* true and the log flag is false or absent.
C13_FlagsIndependent ==
    Scanned =>
        \A u \in ScannedUrls :
            /\ Enqueued("UrlCheck", u) <=> FlagOn("dup")
            /\ Enqueued("UrlLog", u) <=> FlagOn("log")
            /\ Enqueued("UrlTitle", u) <=> FlagOn("fetch")
            /\ Rewrite(u).some => (Reannounced(u) <=> FlagOn("mut"))

\* what the scan does: the duplicate check needs the log flag as well,
\* the other three effects depend on their own flag alone
UrlEffectsAsCoded ==
    Scanned =>
        \A u \in ScannedUrls :
            /\ Enqueued("UrlCheck", u) <=> (FlagOn("log") /\ FlagOn("dup"))
            /\ Enqueued("UrlLog", u) <=> FlagOn("log")
            /\ Enqueued("UrlTitle", u) <=> FlagOn("fetch")
            /\ Reannounced(u) <=> (FlagOn("mut") /\ Rewrite(u).some)

\* a URL scanned on a channel whose duplicate flag is true through "*" and
\* whose log flag is absent
DupWithoutLogScanned ==
    /\ Scanned
    /\ ScannedUrls # {}
    /\ url_in.flags["dup"] = (Star :> TRUE)
    /\ url_in.flags["log"] = EmptyMap

\* ------------------------------------------------------------------------
\* C14
\* ------------------------------------------------------------------------

\* the value a flag map gives a channel: its own entry, else the "*" entry
Resolved(m, ch) ==
    IF ch \in DOMAIN m THEN Some(m[ch])
    ELSE IF Star \in DOMAIN m THEN Some(m[Star]) ELSE None

\* C14: get_wild(map, channel) is the entry stored under the channel name
\* whenever there is one (also when it is false and the "*" entry is true),
\* the "*" entry when there is none, and none only when neither exists; the
\* URL scan logs a URL exactly when the log flag so resolved is true.
C14_ExactThenWildcard ==
    /\ (url_pc = "done" /\ url_in.fn = "get_wild") =>
          /\ url_out = Resolved(url_in.map, url_in.key)
          /\ (url_out = None) <=>
                (url_in.key \notin DOMAIN url_in.map /\ Star \notin DOMAIN url_in.map)
    /\ Scanned =>
          \A u \in ScannedUrls :
              Enqueued("UrlLog", u) <=> (Resolved(url_in.flags["log"], url_in.key) = Some(TRUE))

\* the channel's own entry is false, the "*" entry is true, and the lookup
\* has returned false
C14_Witness ==
    /\ url_pc = "done"
    /\ url_in.fn = "get_wild"
    /\ url_in.key = ChanA
    /\ url_in.map = (ChanA :> FALSE @@ Star :> TRUE)
    /\ url_out = Some(FALSE)

\* ------------------------------------------------------------------------
\* C15
\* ------------------------------------------------------------------------

\* the step of run that dispatches a channel message which is scanned for
\* URLs (the consumers may take steps of their own while it is pending)
ScanDispatch ==
    /\ ChanDispatch
    /\ disp_pc' # disp_pc
    /\ SplitOnce(ev.a[2]).cmd \notin DOMAIN handlers.chanmsg
    /\ ~IsUrlCmd(config, ev.a[1], SplitOnce(ev.a[2]).cmd)

\* the URLs of the message being dispatched that the blacklist does not cover
DispatchedUrls ==
    LET caps == Captures(config.rt.url_re, ev.a[2])
    IN {caps[i] : i \in {j \in 1..Len(caps) : ~Blacklisted(config, caps[j])}}

\* the dispatch step enqueues a log-url op for u and, behind it, a
\* fetch-title op for u
LogThenTitle(u) ==
    \E i, j \in 1..Len(NewOps) :
        /\ i < j
        /\ NewOps[i].op = "UrlLog"
        /\ NewOps[i].a[2] = u
        /\ NewOps[i].a[3] = ev.a[1]
        /\ NewOps[j].op = "UrlTitle"
        /\ NewOps[j].a = <<u, ev.a[1]>>

\* a message with URL u on a channel with log and title fetch enabled
\* enqueues log-url(u) and then fetch-title(u)
LogBeforeTitle ==
    [][ScanDispatch =>
        \A u \in DispatchedUrls :
            (/\ GetWild(config.raw.url_log_channels, ev.a[1]) = Some(TRUE)
             /\ GetWild(config.raw.url_fetch_channels, ev.a[1]) = Some(TRUE))
            => LogThenTitle(u)]_vars

\* a queued fetch-title(u) is eventually executed
TitleFetchExecuted ==
    \A u \in {U1, U2} :
        (\E i \in 1..Len(op_q) : op_q[i].op = "UrlTitle" /\ op_q[i].a = <<u, ChanA>>)
        ~> (op_pc = "exec" /\ op_cur.op = "UrlTitle" /\ op_cur.a = <<u, ChanA>>)

\* the execution of fetch-title(u) gets a text page with title T
TitleFetched(env) ==
    /\ op_pc = "exec"
    /\ op_cur.op = "UrlTitle"
    /\ OpFinish(env)
    /\ env.fetch.kind = "text"
    /\ env.fetch.title.some

\* the execution hands one PRIVMSG with this text to the transport
TitleSent(text) ==
    sent' = Append(sent, Tx("op", op_cur.id, "PRIVMSG", <<op_cur.a[2], text>>))

NewSent == SubSeq(sent', Len(sent) + 1, Len(sent'))

\* the transport rejected a command of the event handled by the step
SendRejected == [who |-> "main", n |-> ev_n + 1] \in logged'

\* exactly one chat message, with this target and text, is handed over
SaysOnly(target, text) ==
    \/ ~SendRejected /\ NewSent = << Tx("main", ev_n + 1, "PRIVMSG", <<target, text>>) >>
    \/ SendRejected /\ NewSent = << >>

\* C16: the private message "say #channel text" from a privileged sender
\* makes the bot hand exactly one chat message to the transport, with
\* target #channel and that text; "say text" with text not starting with
\* "#" goes to the configured default channel; from a sender that is not
\* privileged neither results in any message.  (A message the transport
\* rejects is logged and not sent.)
C16_SayRelayed ==
    [][\A e \in MainEvents :
         (/\ MainPrivmsg(e)
          /\ e.a[1] = istate.mynick
          /\ StripWord(e.a[2], SayWord).some)
         => LET say == StripWord(e.a[2], SayWord).val
                cfg == istate.bot_cfg.raw
            IN IF MapGet(cfg.privileged_nicks, e.prefix.val.nick) = Some(TRUE)
               THEN /\ (Head(Head(say)) = "#" /\ WsPositions(say) # {}) =>
                         SaysOnly(Head(say), SubSeq(say, FirstWs(say) + 1, Len(say)))
                    /\ Head(Head(say)) # "#" => SaysOnly(cfg.channel, say)
               ELSE NewSent = << >>]_vars

\* a privileged sender's "say #b hi" has gone out to #b while the default
\* channel is #a, and the same text from another sender was ignored
C16_Witness ==
    /\ istate.bot_cfg.raw.channel = ChanA
    /\ ev_n = 2
    /\ sent = << Tx("main", 1, "PRIVMSG", <<ChanB, << <<"h", "i">> >> >>) >>
    /\ istate.msg_nick = Bob
    /\ logged = {}

\* ------------------------------------------------------------------------
\* C17
\* ------------------------------------------------------------------------

\* the rules of the table whose pattern matches u
MatchingMutRules(list, u) == {i \in 1..Len(list) : IsMatch(list[i][1], u)}

\* v is u with one match of pattern p replaced by repl, and p matches
\* nowhere further left
ReplacedOnceLeftmost(p, repl, u, v) ==
    LET body == IF IsAnchored(p) THEN Tail(p) ELSE p
        offs == IF IsAnchored(p) THEN {0} ELSE 0..Len(u)
    IN \E off \in offs :
         /\ MatchesAt(body, u, off)
         /\ \A o \in offs : o < off => ~MatchesAt(body, u, o)
         /\ v = SubSeq(u, 1, off) \o repl \o SubSeq(u, off + Len(body) + 1, Len(u))

\* C17: for every rewrite table that compiles and every URL u, re_mut
\* returns none exactly when no rule's pattern matches u; otherwise it
\* returns (i, v) where i is the lowest (zero-based) index of a rule whose
\* pattern matches u and v is u with that rule's replacement put in place
\* of the leftmost match of its pattern, once.
C17_RewriteFirstRuleOnce ==
    (url_pc = "done" /\ url_in.fn = "re_mut") =>
        LET m == MatchingMutRules(url_in.list, url_in.url)
        IN /\ (url_out = None) <=> (m = {})
           /\ m # {} =>
                LET i == CHOOSE k \in m : \A j \in m : k <= j
                IN /\ url_out.val[1] = i - 1
                   /\ ReplacedOnceLeftmost(url_in.list[i][1], url_in.list[i][2],
                                           url_in.url, url_out.val[2])

\* the first rule does not match "http:1", the second matches it at two
\* places and only the left one has been rewritten
C17_Witness ==
    /\ url_pc = "done"
    /\ url_in.fn = "re_mut"
    /\ url_in.url = U1
    /\ url_in.list = << <<<<"s", ":">>, <<":">>>>, <<<<"t">>, <<"x", "t">>>> >>
    /\ url_out = Some(<<1, <<"h", "x", "t", "t", "p", ":", "1">>>>)

\* ------------------------------------------------------------------------
\* C18
\* ------------------------------------------------------------------------

\* run has returned to its caller
RunReturned == disp_pc \in {"returned_ok", "returned_err"}

\* C18: when the stream yields a transport error run has returned that
\* error, when the stream has ended run has returned Ok; from then on this
\* IrcBot handles no inbound event: nothing of the dispatcher's state
\* changes, no handler is called and nothing more is enqueued.
C18_StreamEndStopsRun ==
    /\ [](ev.cmd = "error" => disp_pc = "returned_err")
    /\ [](ev.cmd = "end" => disp_pc = "returned_ok")
    /\ [][RunReturned =>
            UNCHANGED <<disp_pc, ev_n, ev, calls, config, handlers, state,
                        op_enq, msg_enq, logged>>]_vars

\* the stream failed after one event, while the model's stream had more
\* events to deliver
C18_Witness ==
    /\ disp_pc = "returned_err"
    /\ ev.cmd = "error"
    /\ ev_n = 1
    /\ ev_n < MaxEvents
    /\ op_enq > 0

\* ------------------------------------------------------------------------
\* C19
\* ------------------------------------------------------------------------

\* the positions of the log-url ops in the op queue
LogPositions == {i \in 1..Len(op_q) : op_q[i].op = "UrlLog"}

\* a step of run keeps the order of the loop body
InOrderStep ==
    /\ (ev_n' # ev_n) =>
         (/\ disp_pc = "next"
          /\ ev_n' = ev_n + 1
          /\ disp_pc' = "observe"
          /\ op_q' = op_q
          /\ msg_q' = msg_q)
    /\ (disp_pc = "observe") => (disp_pc' = "dispatch" /\ ev_n' = ev_n)
    /\ (disp_pc = "dispatch") => (disp_pc' = "next" /\ ev_n' = ev_n)
    /\ (op_q' # op_q \/ msg_q' # msg_q) =>
         (/\ disp_pc = "dispatch"
          /\ op_q' = op_q \o NewOps
          /\ msg_q' = msg_q \o NewMsgs)

\* C19: run takes the next inbound event only at the head of its loop,
\* after the observers and the handler of the previous event have returned;
\* observers run before the message is dispatched; items are enqueued only
\* by the handler of the current event and are put behind everything that
\* is already in the queue.  So whatever event n enqueued precedes whatever
\* event n+1 enqueues, and the event numbers carried by the queued log-url
\* ops never decrease along the queue.
C19_EventsInArrivalOrder ==
    /\ [][InOrderStep]_vars
    /\ [](\A i, j \in LogPositions : i < j => op_q[i].a[5] <= op_q[j].a[5])

\* both events were channel messages with URLs: the queue holds the ops of
\* the first event in front of those of the second
C19_Witness ==
    /\ ev_n = 2
    /\ disp_pc = "next"
    /\ \E i, j \in LogPositions : i < j /\ op_q[i].a[5] = 1 /\ op_q[j].a[5] = 2
    /\ op_q[Len(op_q)].op = "UrlTitle"
    /\ msg_q # << >>

\* ------------------------------------------------------------------------
\* C20
\* ------------------------------------------------------------------------

\* the command keywords of a configuration, per table
ConfigKeywords(cfg) ==
    [priv |-> {cfg.raw.cmd_reload, cfg.raw.cmd_say}, open |-> {cfg.raw.cmd_invite}]

\* the registry holds exactly the keywords of cfg, each with its handler
RegistryBuiltFrom(hs, cfg) ==
    /\ DOMAIN hs.privmsg_priv = ConfigKeywords(cfg).priv
    /\ DOMAIN hs.privmsg_open = ConfigKeywords(cfg).open
    /\ hs.privmsg_priv[cfg.raw.cmd_say] = "say"
    /\ cfg.raw.cmd_reload # cfg.raw.cmd_say => hs.privmsg_priv[cfg.raw.cmd_reload] = "reload"
    /\ hs.privmsg_open[cfg.raw.cmd_invite] = "invite"

\* a step in which a reload replaces the configuration
ReloadReplaces ==
    /\ config' # config
    /\ \E i \in 1..Len(NewCalls) : NewCalls[i].h = "reload" /\ NewCalls[i].res = "true"

RebuiltOnReplace ==
    /\ config' # config => ReloadReplaces
    /\ ReloadReplaces =>
          /\ RegistryBuiltFrom(handlers', config')
          /\ \A k \in ConfigKeywords(config).priv \ ConfigKeywords(config').priv :
                 k \notin DOMAIN handlers'.privmsg_priv
          /\ \A k \in ConfigKeywords(config).open \ ConfigKeywords(config').open :
                 k \notin DOMAIN handlers'.privmsg_open

\* a private message of a privileged sender reaches a privileged handler
\* exactly when its keyword is one of the installed configuration
KeywordsOfInstalledDispatch ==
    (disp_pc = "dispatch" /\ ev.cmd = "PRIVMSG" /\ ev.a[1] = ev.my_nick
       /\ NickIsPrivileged(config, state.msg_nick)) =>
      ((\E i \in 1..Len(NewCalls) : NewCalls[i].table = "priv")
         <=> SplitOnce(ev.a[2]).cmd \in ConfigKeywords(config).priv)

ConfigBuiltWhole == config \in {BotConfigNew(f).cfg : f \in ValidFiles}

\* C21: the installed configuration is never a partially updated one, and
\* every configuration value read while one event is handled comes from the
\* configuration that was installed when the event was taken from the
\* stream.
C21_OneSnapshotPerEvent ==
    /\ ConfigBuiltWhole
    /\ \A c \in lk_reads : lk_start = Some(c)

\* the privilege check of a private message and the handler it led to have
\* read two different configurations
MixedSnapshots ==
    /\ disp_pc = "call"
    /\ lk_call.h = "say"
    /\ lk_call.pc = "true"
    /\ Cardinality(lk_reads) = 2

\* ------------------------------------------------------------------------
\* C22
\* ------------------------------------------------------------------------

\* the two replies of the failed reload branch
FailureTexts == {ReloadFailedText, ReloadFailedMark}

FailureReplies(nick) ==
    << <<"PRIVMSG", nick, ReloadFailedText>>, <<"PRIVMSG", nick, ReloadFailedMark>> >>

\* the step handles the private message e, a "reload" from a privileged
\* sender, while the outside world answers env and the build of the file
\* fails
ReloadFails(e, env) ==
    /\ main_pc = "loop" /\ ev_n < MaxEvents
    /\ e.cmd = "PRIVMSG" /\ e.a[1] = istate.mynick
    /\ Flatten(e.a[2]) = ReloadWord
    /\ MapGet(istate.bot_cfg.raw.privileged_nicks, e.prefix.val.nick) = Some(TRUE)
    /\ env \in MainEnvFor(e)
    /\ ~BotConfigNew(env.file).ok
    /\ MainRun(Taken(e), MainPrivateMsg(Taken(e), e.a[2], env.file), env.tx_fail)

\* the step handles the channel message e while the page cannot be fetched
\* or the handler ends with Err (the template of a url command does not
\* render)
FetchFails(e, env) ==
    /\ main_pc = "loop" /\ ev_n < MaxEvents
    /\ e.cmd = "PRIVMSG" /\ e.a[1] # istate.mynick
    /\ env \in MainEnvFor(e)
    /\ \/ env.fetch.kind = "err"
       \/ MainChannelMsg(Taken(e), e.a[1], e.a[2], env.render_ok, env.fetch).res = "err"
    /\ MainRun(Taken(e),
               MainChannelMsg(Taken(e), e.a[1], e.a[2], env.render_ok, env.fetch),
               env.tx_fail)

\* the step hands a chat message that describes a failure to the transport
SaysFailure ==
    \E i \in 1..Len(NewSent) :
       NewSent[i].cmd = "PRIVMSG" /\ NewSent[i].a[2] \in FailureTexts

C22_Body ==
    /\ \A e \in MainEvents : \A env \in MainEnv :
         /\ ReloadFails(e, env) =>
               NewSent = TxAll("main", ev_n + 1,
                               SubSeq(FailureReplies(e.prefix.val.nick), 1,
                                      IF env.tx_fail \in 1..2 THEN env.tx_fail - 1 ELSE 2))
         /\ FetchFails(e, env) => NewSent = << >>
    /\ SaysFailure => \E e \in MainEvents : \E env \in MainEnv : ReloadFails(e, env)

TitleIsUrl(env) == Flatten(WsCollapse(env.fetch.title.val)) = op_cur.a[1]

\* C23: the execution of a fetch-title operation hands no chat message to
\* the transport whenever the page title, after collapsing every run of
\* whitespace to a single space, is identical to the URL of the operation.
C23_UrlTitleSuppressed ==
    [][\A env \in ExecEnvFor(op_cur) :
         (TitleFetched(env) /\ TitleIsUrl(env)) => NewSent = << >>]_vars

\* the title "http:1 " of the page http:1 has been sent to the channel as
\* "http:1" in quotes
UrlSentAsTitle ==
    \E i \in 1..Len(sent) :
       /\ sent[i].by = "op"
       /\ sent[i].cmd = "PRIVMSG"
       /\ sent[i].a = <<ChanA, Quoted(<<U1>>)>>

\* ------------------------------------------------------------------------
\* SpecDb: the url history.  Channel messages with a URL are scanned, the
\* op consumer executes the duplicate checks and the logs statement by
\* statement against the url table, and the clock advances
\* ------------------------------------------------------------------------

\* channel messages handled in one behaviour
MaxPosts == 3

\* advances of the clock in one behaviour
MaxTicks == 2

\* db_util.rs: const RETRY_CNT
RETRY_CNT == 5

\* seconds in a day: the expiry window is exp_days * 86400
DaySecs == 86400

\* url_log and duplicate complaints on #a, url_log alone elsewhere; a URL
\* expires after one day
FileLogDup ==
    [FileB EXCEPT !.url_mut_channels = EmptyMap, !.url_dup_expire_days = (Star :> 1)]

\* the clock advances by two thirds of that window
ClockStep == (2 * DaySecs) \div 3

DbEvents == { Event(AlicePrefix, "PRIVMSG", <<ch, <<U2>>>>) : ch \in {ChanA, ChanB} }

DbInit ==
    /\ config = BotConfigNew(FileLogDup).cfg
    /\ EngineStart
    /\ AclIdle /\ UrlIdle /\ MainIdle /\ RestIdle

\* everything but the op queue, its consumer, the transport log and db
dbFrame == <<botVars, msgVars, disp_pc, ev, calls, aclVars, urlVars, mainVars, lockVars>>

\* the query: the sightings of (url, channel) not older than window seconds,
\* as the aggregate row {count, first seen, last seen}
DbCheckUrl(rows, url, channel, window, now) ==
    LET hits == {i \in 1..Len(rows) : /\ rows[i].url = url
                                      /\ rows[i].channel = channel
                                      /\ rows[i].seen >= now - window}
    IN IF hits = {} THEN Seen(0, None, None)
       ELSE Seen(Cardinality(hits),
                 Some(CHOOSE t \in {rows[i].seen : i \in hits} :
                        \A i \in hits : t <= rows[i].seen),
                 Some(CHOOSE t \in {rows[i].seen : i \in hits} :
                        \A i \in hits : t >= rows[i].seen))

\* run takes a channel message from the stream and handle_chanmsg scans it
DbPost ==
    /\ disp_pc = "next"
    /\ ev_n < MaxPosts
    /\ \E e \in DbEvents :
         LET ops == ChanmsgScan(World, e.a[1], e.prefix.val.nick, db.now, e.a[2]).w.ops
             seen == {<<u, e.a[1]>> : u \in {U2}}
         IN /\ op_q' = SendAll(op_q, ops, op_enq)
            /\ op_enq' = op_enq + Len(ops)
            /\ db' = [db EXCEPT
                        !.posted = @ \cup seen,
                        !.firsts = IF seen \subseteq db.posted THEN @
                                   ELSE @ \cup {op_enq + i : i \in
                                                  {j \in 1..Len(ops) : ops[j].op = "UrlCheck"}}]
    /\ ev_n' = ev_n + 1
    /\ UNCHANGED <<dbFrame, sent, logged, op_pc, op_cur, op_timer, op_done, op_idle>>

\* time passes
DbTick ==
    /\ db.now < MaxTicks * ClockStep
    /\ db' = [db EXCEPT !.now = @ + ClockStep]
    /\ UNCHANGED <<dbFrame, opVars, sent, logged, ev_n>>

\* the execution of op_cur ends: Err is logged by read_op_queue, the sleep
\* starts
DbOpEnds(err, cmds) ==
    /\ sent' = sent \o TxAll("op", op_cur.id, cmds)
    /\ logged' = IF err THEN logged \cup {[who |-> "op", n |-> op_cur.id]} ELSE logged
    /\ op_done' = Append(op_done, Done(op_cur.id, err))
    /\ op_cur' = NoItem
    /\ op_pc' = "sleep"
    /\ op_timer' = IRC_OP_THROTTLE
    /\ UNCHANGED <<dbFrame, op_q, op_enq, op_idle, ev_n>>

\* op_handle_urlcheck: start_db and db_check_url; an Err of either ends the
\* execution
DbQuery ==
    /\ op_pc = "exec" /\ op_cur.op = "UrlCheck" /\ db.pc = "idle"
    /\ \E ok \in BOOLEAN :
         IF ok
         THEN /\ db' = [db EXCEPT
                          !.pc = "answered",
                          !.old = DbCheckUrl(db.rows, op_cur.a[2], op_cur.a[3],
                                             op_cur.a[5] * DaySecs, db.now)]
              /\ UNCHANGED <<dbFrame, opVars, sent, logged, ev_n>>
         ELSE /\ DbOpEnds(TRUE, << >>)
              /\ UNCHANGED db

\* op_handle_urlcheck: the message for the row the query returned
DbReport ==
    /\ op_pc = "exec" /\ op_cur.op = "UrlCheck" /\ db.pc = "answered"
    /\ \E tx_fail \in 0..1 :
         LET r == Attempt(UrlCheckPlan(op_cur, [db |-> db.old]), tx_fail)
         IN DbOpEnds(r.err, r.sends)
    /\ db' = [db EXCEPT !.pc = "idle"]

\* op_handle_urllog: start_db, then db_add_url is entered
DbLogStart ==
    /\ op_pc = "exec" /\ op_cur.op = "UrlLog" /\ db.pc = "idle"
    /\ \E ok \in BOOLEAN :
         IF ok
         THEN /\ db' = [db EXCEPT !.pc = "loop", !.retry = 0, !.rowcnt = 0,
                                  !.tries = 0, !.inserted = FALSE]
              /\ UNCHANGED <<dbFrame, opVars, sent, logged, ev_n>>
         ELSE /\ DbOpEnds(TRUE, << >>)
              /\ UNCHANGED db

\* a loop that tries until the insert succeeds
MoreTriesForever(retry) == TRUE

\* db_add_url: while retry < RETRY_CNT
MoreTries(retry) == retry < RETRY_CNT

\* an insert that takes the nickname from SenderContext when it runs
DbExecuteSenderNow ==
    /\ op_pc = "exec" /\ db.pc = "loop"
    /\ MoreTries(db.retry)
    /\ \E ok \in BOOLEAN :
         IF ok
         THEN /\ db' = [db EXCEPT
                          !.rows = Append(@, [seen |-> op_cur.a[5], channel |-> op_cur.a[3],
                                              nick |-> state.msg_nick, url |-> op_cur.a[2]]),
                          !.retry = 0, !.rowcnt = 1, !.tries = @ + 1,
                          !.inserted = TRUE, !.pc = "mark"]
              /\ UNCHANGED logged
         ELSE /\ db' = [db EXCEPT !.retry = @ + 1, !.tries = @ + 1]
              /\ logged' = logged \cup {[who |-> "insert", n |-> op_cur.id]}
    /\ UNCHANGED <<dbFrame, opVars, sent, ev_n>>

\* db_add_url: one pass of the loop: the insert is executed; Ok ends the
\* loop with retry = 0, Err is logged and counted after the sleep
DbExecute ==
    /\ op_pc = "exec" /\ db.pc = "loop"
    /\ MoreTries(db.retry)
    /\ \E ok \in BOOLEAN :
         IF ok
         THEN /\ db' = [db EXCEPT
                          !.rows = Append(@, [seen |-> op_cur.a[5], channel |-> op_cur.a[3],
                                              nick |-> op_cur.a[4], url |-> op_cur.a[2]]),
                          !.retry = 0, !.rowcnt = 1, !.tries = @ + 1,
                          !.inserted = TRUE, !.pc = "mark"]
              /\ UNCHANGED logged
         ELSE /\ db' = [db EXCEPT !.retry = @ + 1, !.tries = @ + 1]
              /\ logged' = logged \cup {[who |-> "insert", n |-> op_cur.id]}
    /\ UNCHANGED <<dbFrame, opVars, sent, ev_n>>

\* db_add_url: the loop condition fails
DbLoopEnd ==
    /\ op_pc = "exec" /\ db.pc = "loop"
    /\ ~MoreTries(db.retry)
    /\ db' = [db EXCEPT !.pc = "mark"]
    /\ UNCHANGED <<dbFrame, opVars, sent, logged, ev_n>>

\* db_add_url: db_mark_change (update_change is true), "GAVE UP" when
\* retry > 0, Ok(rowcnt); op_handle_urllog returns
DbMark ==
    /\ op_pc = "exec" /\ db.pc = "mark"
    /\ \E ok \in BOOLEAN :
         /\ sent' = sent
         /\ logged' = logged
                      \cup (IF ok THEN {} ELSE {[who |-> "op", n |-> op_cur.id]})
                      \cup (IF ok /\ db.retry > 0
                            THEN {[who |-> "gave_up", n |-> op_cur.id]} ELSE {})
         /\ op_done' = Append(op_done, Done(op_cur.id, ~ok))
    /\ op_cur' = NoItem
    /\ op_pc' = "sleep"
    /\ op_timer' = IRC_OP_THROTTLE
    /\ db' = [db EXCEPT !.pc = "idle"]
    /\ UNCHANGED <<dbFrame, op_q, op_enq, op_idle, ev_n>>

\* sleep(Duration::from_millis(IRC_OP_THROTTLE)) has elapsed
DbWake ==
    /\ op_pc = "sleep"
    /\ op_pc' = "recv"
    /\ op_timer' = 0
    /\ UNCHANGED <<dbFrame, op_q, op_cur, op_enq, op_done, op_idle, sent, logged, ev_n, db>>

DbNext ==
    \/ Setup
    \/ DbPost
    \/ DbTick
    \/ OpRecv
    \/ DbQuery
    \/ DbReport
    \/ DbLogStart
    \/ DbExecute
    \/ DbLoopEnd
    \/ DbMark
    \/ DbWake

SpecDb == DbInit /\ [][DbNext]_vars

\* ------------------------------------------------------------------------
\* C24
\* ------------------------------------------------------------------------

\* the step is the report of the duplicate check op_cur, whose query
\* returned db.old
Reports ==
    /\ op_pc = "exec" /\ op_cur.op = "UrlCheck"
    /\ db.pc = "answered" /\ db'.pc = "idle"

\* the transport rejected the message of the op executed by the step
OpSendRejected == [who |-> "op", n |-> op_cur.id] \in logged'

\* the step hands exactly this chat message to the transport
OpSaysOnly(target, text) ==
    NewSent = << Tx("op", op_cur.id, "PRIVMSG", <<target, text>>) >>

Carries(text, tok) == \E i \in 1..Len(text) : text[i] = tok

C24_Body ==
    Reports =>
      LET old == db.old
          tz == op_cur.a[4]
      IN /\ (old.kind = "none" \/ old.cnt = 0) => NewSent = << >>
         /\ OpSendRejected => NewSent = << >>
         /\ (old.kind = "some" /\ old.cnt = 1 /\ ~OpSendRejected) =>
              /\ OpSaysOnly(op_cur.a[3], SeenOnceText(old.first.val, tz))
              /\ Carries(NewSent[1].a[2], TimeIn(old.first.val, tz))
              /\ ~Carries(NewSent[1].a[2], Digits(old.cnt))
         /\ (old.kind = "some" /\ old.cnt > 1 /\ ~OpSendRejected) =>
              /\ OpSaysOnly(op_cur.a[3],
                            SeenManyText(old.cnt, old.first.val, old.last.val, tz))
              /\ Carries(NewSent[1].a[2], Digits(old.cnt))
              /\ Carries(NewSent[1].a[2], TimeIn(old.first.val, tz))
              /\ Carries(NewSent[1].a[2], TimeIn(old.last.val, tz))

\* C24: the check-duplicate-url operation hands nothing to the transport
\* when the history query reports no sighting of (url, channel) inside the
\* expiry window; one "seen once" message with the first-seen time, to the
\* channel, when the count is 1; and one message with the count, the
\* first-seen and the last-seen time when the count is greater than 1.  (A
\* message the transport rejects is logged and not sent.)
C24_DuplicateReport == [][C24_Body]_vars

\* https:2 was posted on #a at 0 and twice at 57600, one day being the
\* expiry window: the first check was silent, the second said "seen once,
\* at 0", the third "seen 2 times, first at 0, last at 57600"
C24_Witness ==
    /\ Len(sent) = 2
    /\ sent[1].a = <<ChanA, SeenOnceText(0, UtcTz)>>
    /\ sent[2].a = <<ChanA, SeenManyText(2, 0, ClockStep, UtcTz)>>
    /\ db.firsts = {1}

\* a URL logged once is checked after the expiry window: the query reports
\* no sighting
ExpiredSighting ==
    /\ db.pc = "answered"
    /\ db.old.cnt = 0
    /\ \E i \in 1..Len(db.rows) : db.rows[i].channel = op_cur.a[3]

\* ------------------------------------------------------------------------
\* C25
\* ------------------------------------------------------------------------

\* the step executes the insert once more
InsertAttempted == db'.tries = db.tries + 1

\* the step is the return of a db_add_url in which no insert succeeded
ReturnsEmpty == db.pc = "mark" /\ db'.pc = "idle" /\ ~db.inserted

FailureLoggedFor(id) ==
    \E l \in logged' : l.n = id /\ l.who \in {"gave_up", "op"}

C25_Body ==
    /\ InsertAttempted => ~db.inserted /\ db.tries < RETRY_CNT
    /\ ReturnsEmpty =>
         /\ db.tries = RETRY_CNT
         /\ db'.rows = db.rows
         /\ FailureLoggedFor(op_cur.id)
         /\ op_q' = op_q
         /\ op_done' = Append(op_done, Done(op_cur.id, [who |-> "op", n |-> op_cur.id] \in logged'))
         /\ op_pc' = "sleep"

\* C25: one log-url operation executes its insert at most RETRY_CNT = 5
\* times and not again after the first success; when all five fail the
\* routine returns, no row has been added, a failure is logged, the op is
\* not queued again and the consumer goes on to its sleep and the next op.
C25_BoundedInsertRetry ==
    /\ [](db.tries <= RETRY_CNT)
    /\ [][C25_Body]_vars

\* the log of the first posting gave up after five failed inserts, nothing
\* was stored, and the consumer has executed the next op since
C25_Witness ==
    /\ [who |-> "gave_up", n |-> 2] \in logged
    /\ Cardinality({l \in logged : l.who = "insert" /\ l.n = 2}) = 1
    /\ db.rows = << >>
    /\ \E i \in 1..Len(op_done) : op_done[i].id = 3

\* ------------------------------------------------------------------------
\* C26
\* ------------------------------------------------------------------------

\* run awaits a handler while it holds a read guard on the registry
GuardHeldInCall == disp_pc = "call" => h_lock.r >= 1

\* a handler that waits for the write guard on the registry waits in every
\* later state: run stays at its call, takes no further event, and the
\* registry is never written
WriterInHandlerStuck ==
    lk_call.pc = "wait_write" =>
      /\ lk_call' = lk_call
      /\ disp_pc' = "call"
      /\ ev_n' = ev_n /\ ev' = ev
      /\ handlers' = handlers
      /\ h_lock' = h_lock

\* C26: the dispatcher holds the read lock on the handler registry for the
\* whole execution of a handler, so a handler that calls clear_handlers or
\* a register_* method (which need the write lock) waits forever: the
\* dispatch loop is stuck at that call and no later event is processed.
C26_RegistryWriteInHandlerDeadlocks ==
    /\ []GuardHeldInCall
    /\ [][WriterInHandlerStuck]_vars

\* the first event's handler waits for the write guard while the stream
\* has more events to give
C26_Witness ==
    /\ disp_pc = "call"
    /\ lk_call = [table |-> "priv", h |-> "rebuild", pc |-> "wait_write"]
    /\ h_lock.r = 1
    /\ ev_n = 1
    /\ ev_n < MaxLockEvents

\* ------------------------------------------------------------------------
\* C27
\* ------------------------------------------------------------------------

\* history log and duplicate detection are both enabled on the channel
LogAndDup(ch) ==
    /\ GetWild(config.raw.url_log_channels, ch) = Some(TRUE)
    /\ GetWild(config.raw.url_dup_complain_channels, ch) = Some(TRUE)

\* the step scans a channel message: the log of a sighting on a channel
\* with both features is enqueued right after the check of that sighting
CheckEnqueuedFirst ==
    ev_n' = ev_n + 1 =>
      \A j \in 1..Len(NewOps) :
         (NewOps[j].op = "UrlLog" /\ LogAndDup(NewOps[j].a[3])) =>
            /\ j > 1
            /\ NewOps[j - 1].op = "UrlCheck"
            /\ NewOps[j - 1].a[2] = NewOps[j].a[2]
            /\ NewOps[j - 1].a[3] = NewOps[j].a[3]
            /\ NewOps[j - 1].id = NewOps[j].id - 1

\* while the log of a sighting is being executed, the check of that
\* sighting has been executed
CheckExecutedFirst ==
    (op_pc = "exec" /\ op_cur.op = "UrlLog" /\ LogAndDup(op_cur.a[3])) =>
       \E i \in 1..Len(op_done) : op_done[i].id = op_cur.id - 1

\* the check of the first posting of a URL on a channel sent nothing
FirstPostingSilent ==
    \A i \in 1..Len(sent) : sent[i].item \notin db.firsts

\* C27: on a channel with history log and duplicate detection enabled the
\* check-duplicate-url of a sighting is enqueued before its log-url, the
\* single consumer executes the check before the sighting is inserted, and
\* so the first posting of a URL on a channel produces no duplicate
\* message.
C27_CheckBeforeLog ==
    /\ [][CheckEnqueuedFirst]_vars
    /\ []CheckExecutedFirst
    /\ []FirstPostingSilent

\* the first posting on #a was checked without a failure and in silence and
\* then logged; the check of the second posting found it
C27_Witness ==
    /\ db.firsts = {1}
    /\ Len(op_done) >= 3
    /\ op_done[1] = Done(1, FALSE)
    /\ op_done[2] = Done(2, FALSE)
    /\ db.rows # << >>
    /\ db.rows[1].channel = ChanA
    /\ Len(sent) = 1
    /\ sent[1].item = 3

\* ------------------------------------------------------------------------
\* C28
\* ------------------------------------------------------------------------

IsObserverCall(c) == c.table = "observer"

\* the observers called for the event being handled, in call order
ObserverCalls == SelectSeq(calls, IsObserverCall)

\* run has left the observer loop of an event it took from the stream
PastObservers ==
    /\ ev_n > 0
    /\ disp_pc \notin {"setup", "obs_lock", "obs"}
    /\ disp_pc = "call" => lk_call.table # "observer"

\* the k-th call is the k-th registered observer, and a call is followed by
\* another only when it did not return Ok(true)
InRegistrationOrder ==
    /\ Len(ObserverCalls) <= Len(handlers.irc_cmd)
    /\ \A k \in 1..Len(ObserverCalls) :
         /\ ObserverCalls[k].h = handlers.irc_cmd[k]
         /\ k < Len(ObserverCalls) => ObserverCalls[k].res # "true"

\* after the loop either every registered observer was called or the last
\* one called returned Ok(true)
AllUnlessHandled ==
    PastObservers =>
      /\ Len(ObserverCalls) >= 1
      /\ \/ Len(ObserverCalls) = Len(handlers.irc_cmd)
         \/ ObserverCalls[Len(ObserverCalls)].res = "true"

\* C28: for every inbound event the raw-event observers are invoked in the
\* order of their registration; the invocation stops after the first one
\* that returns true; one that returns false or an error is followed by
\* the next observer, and the dispatch loop goes on.
C28_ObserversInOrder ==
    /\ []InRegistrationOrder
    /\ []AllUnlessHandled

\* while the second event is handled: the first observer failed, the second
\* was called and returned false, and the event went on to a keyword handler
C28_Witness ==
    /\ ev_n = 2
    /\ Len(calls) = 3
    /\ calls[1].table = "observer" /\ calls[1].h = "observer" /\ calls[1].res = "err"
    /\ calls[2].table = "observer" /\ calls[2].h = "observer2" /\ calls[2].res = "false"
    /\ calls[3].table # "observer"

\* ------------------------------------------------------------------------
\* C29
\* ------------------------------------------------------------------------

\* run leaves the observer loop because an observer returned Ok(true)
ObserverHandled ==
    /\ disp_pc = "call" /\ lk_call.table = "observer" /\ lk_call.pc = "true"
    /\ disp_pc' # disp_pc

\* run leaves the classification of the event
Classified == disp_pc = "classify" /\ disp_pc' # disp_pc

C29_Body ==
    /\ ObserverHandled => disp_pc' = "classify" /\ ev' = ev /\ ev_n' = ev_n
    /\ Classified =>
         /\ (ev.cmd = "PRIVMSG" /\ ev.a[1] = ev.my_nick) => disp_pc' = "priv_check"
         /\ (ev.cmd = "PRIVMSG" /\ ev.a[1] # ev.my_nick) => disp_pc' = "chan_lookup"

\* C29: an observer that returns true stops only the observers after it;
\* the same event is classified next, and a private or channel chat message
\* goes on to the keyword handler tables and the URL scan.
C29_HandledStillDispatched == [][C29_Body]_vars

\* the first observer returned true for a channel message, the second was
\* not called, and the URL of the message has been scanned into the op queue
C29_Witness ==
    /\ ev_n = 1
    /\ disp_pc = "next"
    /\ Len(calls) = 1
    /\ calls[1].table = "observer" /\ calls[1].res = "true"
    /\ ev.a = <<ChanA, <<<<"s", "e", "e">>, WS, U1>>>>
    /\ op_enq > 0

\* ------------------------------------------------------------------------
\* C30
\* ------------------------------------------------------------------------

\* the origin fields of the event being handled
OriginOf(e, field) == IF e.prefix.some THEN e.prefix.val[field] ELSE NoneStr

\* C30: whenever an observer or a handler runs for an event, SenderContext
\* holds the nickname, user and host of that event's origin, or "NONE"
\* three times when the event has no nickname origin, and the identity
\* string is user, "@" and host; nothing of an earlier event remains.
C30_SenderContextOfEvent ==
    disp_pc = "call" =>
      /\ state.msg_nick = OriginOf(ev, "nick")
      /\ state.msg_user = OriginOf(ev, "user")
      /\ state.msg_host = OriginOf(ev, "host")
      /\ state.msg_userhost = OriginOf(ev, "user") \o <<"@">> \o OriginOf(ev, "host")

\* Alice's "say hi" was handled first; now an observer runs for an event
\* without origin and SenderContext reads NONE, NONE@NONE
C30_Witness ==
    /\ ev_n = 2
    /\ msg_enq = 1
    /\ disp_pc = "call"
    /\ lk_call.table = "observer"
    /\ ~ev.prefix.some
    /\ state.msg_nick = NoneStr
    /\ state.msg_userhost = NoneStr \o <<"@">> \o NoneStr

\* ------------------------------------------------------------------------
\* SpecNick: nickname changes are announced on the stream while some task
\* hands change-nickname ops to new_op and the op consumer executes them
\* ------------------------------------------------------------------------

\* events taken from the stream in one behaviour
MaxNickEvents == 3

Bot2Prefix == Some([nick |-> Bot2, user |-> <<"b">>, host |-> <<"h">>])

NickEvents ==
    { Event(BotPrefix, "NICK", <<Bot2>>),
      Event(Bot2Prefix, "NICK", <<Bot>>),
      Event(AlicePrefix, "NICK", <<Bot2>>),
      Event(None, "PING", << >>) }

NickStreamNext ==
    /\ ev_n < MaxNickEvents
    /\ \E e \in NickEvents : RunNext(e)

\* new_op(IrcOp::Nick(..))
CallNewNick == \E n \in {Bot, Bot2} : NewOp(Op("Nick", <<n>>))

NickNext ==
    \/ Setup
    \/ NickStreamNext
    \/ Observers
    \/ RunNick
    \/ RunOther
    \/ CallNewNick
    \/ OpRecv
    \/ OpExec
    \/ OpWake
    \/ TimePasses

SpecNick == Init /\ [][NickNext]_vars

\* ------------------------------------------------------------------------
\* C31
\* ------------------------------------------------------------------------

\* the step dispatches a nickname change announced by the tracked nickname
OwnNickChange ==
    /\ disp_pc = "dispatch" /\ disp_pc' # disp_pc
    /\ ev.cmd = "NICK"
    /\ ev.prefix.some
    /\ ev.prefix.val.nick = state.my_nick

C31_Body ==
    /\ state'.my_nick # state.my_nick => OwnNickChange
    /\ OwnNickChange => state'.my_nick = ev.a[1]

\* C31: the tracked nickname changes only in the dispatch of a
\* nickname-change event whose sender is the tracked nickname, and it
\* becomes the new nickname of that event; a nickname change of another
\* sender, and the enqueuing or the execution of a change-nickname op, leave
\* it as it is.
C31_NickTracked == [][C31_Body]_vars

\* the bot was renamed to bot2 by the first event, Alice's change to the
\* same nickname was dispatched after it, and a change-nickname op to "bot"
\* has been executed: the tracked nickname is bot2
C31_Witness ==
    /\ state.my_nick = Bot2
    /\ ev_n = 2
    /\ disp_pc = "next"
    /\ ev.cmd = "NICK" /\ ev.prefix = AlicePrefix
    /\ Len(sent) = 1
    /\ sent[1].cmd = "NICK" /\ sent[1].a = <<Bot>>

\* ------------------------------------------------------------------------
\* SpecCarry: run dispatches channel messages and reload commands while the
\* op consumer executes the UrlCheck and UrlLog ops enqueued earlier
\* ------------------------------------------------------------------------

\* events taken from the stream in one behaviour
MaxCarryEvents == 2

\* FileLogDup with another database, expiry and timezone
FileLogDupMoved ==
    [FileLogDup EXCEPT !.url_log_db = FileA.url_log_db,
                       !.url_dup_expire_days = (Star :> 30),
                       !.url_dup_timezone = (Star :> <<"E", "E", "T">>)]

\* U2 posted on #a by Alice or by Bob, and Bob's reload command
CarryEvents ==
    { Event(p, "PRIVMSG", <<ChanA, <<U2>>>>) : p \in {AlicePrefix, BobPrefix} }
    \cup { Event(BobPrefix, "PRIVMSG", <<Bot, <<FileLogDup.cmd_reload>>>>) }

\* the configuration file a reload finds, handlers that return Ok(true)
CarryEnvs ==
    { [res_priv |-> "true", res_open |-> "true", res_chan |-> "true",
       file |-> f, render_ok |-> TRUE] : f \in {FileLogDup, FileLogDupMoved} }

\* run: one event is taken from the stream and dispatched: SenderContext
\* is overwritten, then handle_privmsg or handle_chanmsg runs; the clock
\* gives the timestamp.  db.origin notes for each op its number, the
\* event behind it and the configuration installed at that moment
CarryDispatch(e, env) ==
    LET st == SenderContext(state, e.prefix)
        r  == IF e.a[1] = state.my_nick
              THEN HandlePrivmsg(World, env, st.msg_nick, ev_n + 1,
                                 SplitOnce(e.a[2]).cmd, SplitOnce(e.a[2]).args)
              ELSE HandleChanmsg(World, env, e.a[1], st.msg_nick, db.now, e.a[2],
                                 SplitOnce(e.a[2]).cmd, SplitOnce(e.a[2]).args)
    IN /\ state' = st
       /\ ev' = [prefix |-> e.prefix, cmd |-> e.cmd, a |-> e.a, my_nick |-> state.my_nick]
       /\ ev_n' = ev_n + 1
       /\ config' = r.w.config
       /\ handlers' = r.w.handlers
       /\ op_q' = SendAll(op_q, r.w.ops, op_enq)
       /\ op_enq' = op_enq + Len(r.w.ops)
       /\ msg_q' = SendAll(msg_q, r.w.msgs, msg_enq)
       /\ msg_enq' = msg_enq + Len(r.w.msgs)
       /\ logged' = IF r.res = "err"
                    THEN r.w.logged \cup {[who |-> "run", n |-> ev_n + 1]}
                    ELSE r.w.logged
       /\ db' = [db EXCEPT !.origin = @ \cup
                    { [id |-> op_enq + i, nick |-> e.prefix.val.nick, channel |-> e.a[1],
                       text |-> e.a[2], ts |-> db.now, cfg |-> config] :
                      i \in 1..Len(r.w.ops) }]
       /\ UNCHANGED <<sent, calls, disp_pc, op_pc, op_cur, op_timer, op_done, op_idle,
                      msg_pc, msg_cur, msg_timer, msg_done, msg_idle,
                      aclVars, urlVars, mainVars, lockVars>>

CarryEvent ==
    /\ disp_pc = "next"
    /\ ev_n < MaxCarryEvents
    /\ \E e \in CarryEvents : \E env \in CarryEnvs :
         /\ (e.a[1] # state.my_nick => env.file = FileLogDup)
         /\ CarryDispatch(e, env)

CarryNext ==
    \/ Setup
    \/ CarryEvent
    \/ DbTick
    \/ OpRecv
    \/ DbQuery
    \/ DbReport
    \/ DbLogStart
    \/ DbExecute
    \/ DbLoopEnd
    \/ DbMark
    \/ DbWake

SpecCarry == DbInit /\ [][CarryNext]_vars

\* what db.origin noted for op number id
OriginOfOp(id) == CHOOSE g \in db.origin : g.id = id

\* the data the event and the configuration of origin g give an op of kind k
CarriedBy(g, k, url) ==
    IF k = "UrlLog"
    THEN <<g.cfg.raw.url_log_db, url, g.channel, g.nick, g.ts>>
    ELSE <<g.cfg.raw.url_log_db, url, g.channel,
           WildOr(GetWild(g.cfg.rt.url_dup_tz, g.channel), UtcTz),
           WildOr(GetWild(g.cfg.raw.url_dup_expire_days, g.channel), 7)>>

\* op o carries what its origin gave it
CarriesOrigin(o) ==
    /\ \E g \in db.origin : g.id = o.id
    /\ \E i \in 1..Len(Captures(OriginOfOp(o.id).cfg.rt.url_re, OriginOfOp(o.id).text)) :
         o.a = CarriedBy(OriginOfOp(o.id), o.op,
                         Captures(OriginOfOp(o.id).cfg.rt.url_re, OriginOfOp(o.id).text)[i])

\* every UrlCheck and UrlLog op, queued or in execution
DbOpsPending ==
    {op_q[i] : i \in 1..Len(op_q)} \cup (IF op_pc = "exec" THEN {op_cur} ELSE {})

\* a step that inserts a row
RowInserted == Len(db'.rows) = Len(db.rows) + 1

\* a step that runs the query
QueryAnswered == db.pc = "idle" /\ db'.pc = "answered"

C32_Body ==
    /\ RowInserted =>
         LET g == OriginOfOp(op_cur.id)
             row == db'.rows[Len(db'.rows)]
         IN /\ row.nick = g.nick /\ row.channel = g.channel /\ row.seen = g.ts
            /\ row.url = g.text[1]
    /\ QueryAnswered =>
         LET g == OriginOfOp(op_cur.id)
         IN db'.old = DbCheckUrl(db.rows, g.text[1], g.channel,
                                 WildOr(GetWild(g.cfg.raw.url_dup_expire_days, g.channel), 7)
                                 * DaySecs, db.now)

\* C32: the data of a queued UrlLog or UrlCheck op is the data of the event
\* that enqueued it and of the configuration installed then (nickname,
\* channel, URL and timestamp; database path, timezone and expiry), whatever
\* SenderContext and the configuration hold when it is executed: the row
\* inserted and the query run use that data
C32_OpDataFixedAtEnqueue ==
    /\ [](\A o \in DbOpsPending : CarriesOrigin(o))
    /\ [][C32_Body]_vars

\* Alice's posting was logged after Bob's reload had moved the database and
\* overwritten SenderContext
C32_Witness ==
    /\ Len(db.rows) = 1 /\ db.rows[1].nick = Alice
    /\ state.msg_nick = Bob
    /\ config = BotConfigNew(FileLogDupMoved).cfg
    /\ Len(op_done) = 2
    /\ \A g \in db.origin : g.cfg = BotConfigNew(FileLogDup).cfg
    /\ op_done[1].id = 1 /\ ~op_done[1].err

\* ------------------------------------------------------------------------
\* C33, C34: the URL scan of handle_chanmsg (SpecUrl)
\* ------------------------------------------------------------------------

\* a scan has returned
ScanDone == url_pc = "done" /\ url_in.fn = "scan"

\* the matches of the scanned text, left to right
ScanMatches == Captures(ScanConfig(url_in.flags).rt.url_re, url_in.text)

\* the matches that start with no prefix of url_blacklist, left to right
Unlisted == SelectSeq(ScanMatches, LAMBDA u : ~Blacklisted(ScanConfig(url_in.flags), u))

RECURSIVE OpsOfEach(_)
\* the ops of each URL of urls in turn
OpsOfEach(urls) ==
    IF urls = << >> THEN << >>
    ELSE UrlOps(ScanConfig(url_in.flags), Head(urls), url_in.key, Alice, 1)
         \o OpsOfEach(Tail(urls))

RECURSIVE MsgsOfEach(_)
\* the messages of each URL of urls in turn
MsgsOfEach(urls) ==
    IF urls = << >> THEN << >>
    ELSE UrlMsgs(ScanConfig(url_in.flags), Head(urls), url_in.key)
         \o MsgsOfEach(Tail(urls))

\* the URL an op is about
UrlOfOp(o) == IF o.op = "UrlTitle" THEN o.a[1] ELSE o.a[2]

\* u is a blacklisted match or what the rewrite rules make of one
FromBlacklisted(u) ==
    \E i \in 1..Len(ScanMatches) :
      /\ Blacklisted(ScanConfig(url_in.flags), ScanMatches[i])
      /\ \/ u = ScanMatches[i]
         \/ /\ ReMutApply(ScanConfig(url_in.flags).rt.url_mut_re, ScanMatches[i]).some
            /\ u = ReMutApply(ScanConfig(url_in.flags).rt.url_mut_re, ScanMatches[i]).val[2]

\* C33: the matches of a message are processed left to right; a match that
\* starts with a blacklist prefix enqueues no op and no message, and the
\* matches after it are processed as if it were not there
C33_BlacklistedSkipped ==
    ScanDone =>
      /\ url_out.w.ops = OpsOfEach(Unlisted)
      /\ url_out.w.msgs = MsgsOfEach(Unlisted)
      /\ \A i \in 1..Len(url_out.w.ops) : ~FromBlacklisted(UrlOfOp(url_out.w.ops[i]))
      /\ \A i \in 1..Len(url_out.w.msgs) : ~FromBlacklisted(url_out.w.msgs[i].msg[1])

\* the blacklisted https:9 came first, https:2 after it was logged, had its
\* title fetched and was rewritten
C33_Witness ==
    /\ ScanDone
    /\ ScanMatches = <<U9, U2>>
    /\ Unlisted = <<U2>>
    /\ Len(url_out.w.ops) = 4
    /\ Len(url_out.w.msgs) = 1

\* url_mut_channels enables the scanned channel
MutEnabled == GetWild(ScanConfig(url_in.flags).raw.url_mut_channels, url_in.key) = Some(TRUE)

\* what the rewrite rules make of u: None when no rule matches
Rewritten(u) == ReMutApply(ScanConfig(url_in.flags).rt.url_mut_re, u)

\* the positions of the processed matches that a rule rewrites
RewrittenAt == {i \in 1..Len(Unlisted) : MutEnabled /\ Rewritten(Unlisted[i]).some}

\* how many items of seq satisfy Test
CountOf(seq, Test(_)) == Cardinality({i \in 1..Len(seq) : Test(seq[i])})

\* C34: on a channel that url_mut_channels enables, a processed URL that a
\* rewrite rule matches enqueues exactly one message with the rewritten URL
\* to that channel and exactly one UrlTitle op for the rewritten URL; without
\* a matching rule, or on a channel not enabled, no message is enqueued and
\* no UrlTitle op for anything but the URL as posted
C34_RewriteAnnounced ==
    ScanDone =>
      /\ \A i \in RewrittenAt :
           /\ CountOf(url_out.w.msgs,
                      LAMBDA m : m = Msg(url_in.key, <<Rewritten(Unlisted[i]).val[2]>>)) = 1
           /\ CountOf(url_out.w.ops,
                      LAMBDA o : o = Op("UrlTitle",
                                        <<Rewritten(Unlisted[i]).val[2], url_in.key>>)) = 1
      /\ Len(url_out.w.msgs) = Cardinality(RewrittenAt)
      /\ CountOf(url_out.w.ops,
                 LAMBDA o : /\ o.op = "UrlTitle"
                            /\ \A j \in 1..Len(ScanMatches) : o.a[1] # ScanMatches[j])
         = Cardinality(RewrittenAt)

\* of http:1 and https:2 the second was rewritten to http:2 and announced;
\* titles are fetched for all three
C34_Witness ==
    /\ ScanDone
    /\ ScanMatches = <<U1, U2>>
    /\ MutEnabled
    /\ ~Rewritten(U1).some
    /\ url_out.w.msgs = << Msg(ChanA, << <<"h", "t", "t", "p", ":", "2">> >>) >>
    /\ url_out.w.ops = << Op("UrlTitle", <<U1, ChanA>>), Op("UrlTitle", <<U2, ChanA>>),
                          Op("UrlTitle", << <<"h", "t", "t", "p", ":", "2">>, ChanA>>) >>

\* rewriting is not enabled on the channel: nothing is announced
NoRewriteWhenDisabled ==
    /\ ScanDone /\ ~MutEnabled
    /\ Rewritten(U2).some
    /\ ScanMatches = <<U1, U2>>
    /\ url_out.w.msgs = << >>

\* ------------------------------------------------------------------------
\* SpecFetch: the op consumer executing UrlTitle and UrlFetch ops, the
\* response to each fetch chosen by the outside world
\* ------------------------------------------------------------------------

TextHtml == <<"t", "e", "x", "t", "/", "h", "t", "m", "l">>

ImagePng == <<"i", "m", "a", "g", "e", "/", "p", "n", "g">>

\* what a fetch meets: whether Url::parse accepts the URL, whether the
\* request gets a response, its status and Content-Type, and of its body
\* the page title and the output filter's captures
Response(url_ok, net_ok, status, ct, title, caps) ==
    [url_ok |-> url_ok, net_ok |-> net_ok, status |-> status, ct |-> ct,
     title |-> title, caps |-> caps]

FetchResponses ==
    { Response(FALSE, TRUE, 200, Some(TextHtml), None, << >>),
      Response(TRUE, FALSE, 200, Some(TextHtml), None, << >>),
      Response(TRUE, TRUE, 404, Some(TextHtml), Some(<< <<"T">> >>), << <<"r">> >>),
      Response(TRUE, TRUE, 200, None, Some(<< <<"T">> >>), << <<"r">> >>),
      Response(TRUE, TRUE, 200, Some(ImagePng), Some(<< <<"T">> >>), << <<"r">> >>),
      Response(TRUE, TRUE, 200, Some(TextHtml), Some(<< <<"T">> >>), << <<"r">> >>) }

\* get_body: Err for a URL that does not parse, a request that fails, an
\* error status (error_for_status) and a response without Content-Type
GetBody(r) ==
    IF ~r.url_ok THEN [err |-> TRUE]
    ELSE IF ~r.net_ok THEN [err |-> TRUE]
    ELSE IF r.status >= 400 THEN [err |-> TRUE]
    ELSE IF ~r.ct.some THEN [err |-> TRUE]
    ELSE [err |-> FALSE, ct |-> r.ct.val, title |-> r.title, caps |-> r.caps]

\* a get_text_body that fails on a content type it does not take
GetTextBodyStrict(r) ==
    IF GetBody(r).err THEN [kind |-> "err"]
    ELSE IF StartsWith(GetBody(r).ct, <<"t", "e", "x", "t", "/">>)
    THEN [kind |-> "text", title |-> GetBody(r).title, caps |-> GetBody(r).caps]
    ELSE [kind |-> "err"]

\* get_text_body: get_body(url_s).await?, then Ok(Some(..)) when the
\* content type starts with "text/" and Ok(None) otherwise
GetTextBody(r) ==
    IF GetBody(r).err THEN [kind |-> "err"]
    ELSE IF StartsWith(GetBody(r).ct, <<"t", "e", "x", "t", "/">>)
    THEN [kind |-> "text", title |-> GetBody(r).title, caps |-> GetBody(r).caps]
    ELSE [kind |-> "nontext"]

\* the ops handed to new_op
FetchOps ==
    { Op("UrlTitle", <<U1, ChanA>>),
      Op("UrlFetch", <<U1, ChanA, <<"t">>>>),
      Op("Invite", <<Alice, ChanA>>) }

FetchNewOp == \E op \in FetchOps : NewOp(op)

\* op_handle_urltitle / op_handle_urlfetch: get_text_body(&url).await
\* meets response r
FetchArrives ==
    /\ op_pc = "exec" /\ op_cur.op \in {"UrlTitle", "UrlFetch"} /\ db.pc = "idle"
    /\ \E r \in FetchResponses : db' = [db EXCEPT !.pc = "fetched", !.resp = Some(r)]
    /\ UNCHANGED <<dbFrame, opVars, sent, logged, ev_n>>

\* the rest of op_handle_urltitle / op_handle_urlfetch and its return to
\* read_op_queue
FetchHandled ==
    /\ op_pc = "exec" /\ db.pc = "fetched"
    /\ \E tx_fail \in 0..1 :
         LET r == Attempt(OpPlan(op_cur, [fetch |-> GetTextBody(db.resp.val),
                                          db |-> [kind |-> "err"]]), tx_fail)
         IN DbOpEnds(r.err, r.sends)
    /\ db' = [db EXCEPT !.pc = "idle"]

\* an op that fetches nothing is executed
FetchOther ==
    /\ op_cur.op \notin {"UrlTitle", "UrlFetch"}
    /\ OpExec

FetchNext ==
    \/ Setup
    \/ FetchNewOp
    \/ OpRecv
    \/ FetchArrives
    \/ FetchHandled
    \/ FetchOther
    \/ DbWake

SpecFetch == Init /\ [][FetchNext]_vars

\* a step in which the handling of a fetched response ends
FetchStep == db.pc = "fetched" /\ db'.pc = "idle"

\* the response came with a content type that is not text
NonTextType(r) ==
    /\ r.url_ok /\ r.net_ok /\ r.status < 400
    /\ r.ct.some /\ ~StartsWith(r.ct.val, <<"t", "e", "x", "t", "/">>)

\* invalid URL, network failure, HTTP error status or no content type
FetchFailed(r) == ~r.url_ok \/ ~r.net_ok \/ r.status >= 400 \/ ~r.ct.some

C35_Body ==
    FetchStep =>
      /\ NonTextType(db.resp.val) =>
           /\ sent' = sent
           /\ logged' = logged
           /\ op_done' = Append(op_done, Done(op_cur.id, FALSE))
      /\ FetchFailed(db.resp.val) =>
           /\ sent' = sent
           /\ logged' = logged \cup {[who |-> "op", n |-> op_cur.id]}
           /\ op_done' = Append(op_done, Done(op_cur.id, TRUE))
      /\ op_pc' = "sleep"
      /\ op_q' = op_q
      /\ UNCHANGED <<botVars, msgVars, disp_pc>>

\* C35: a UrlTitle or UrlFetch op whose response has a content type that
\* is not text ends without error and sends nothing; one whose fetch fails
\* (URL invalid, no response, error status, no content type) sends nothing
\* and its error is logged by read_op_queue, which goes on to its sleep with
\* the queue, the message consumer and run untouched
C35_FetchFailureConfined == [][C35_Body]_vars

\* the first op's fetch failed and sent nothing, the second op's fetch
\* of a text page was answered
C35_Witness ==
    /\ Len(op_done) = 2
    /\ op_done[1] = Done(1, TRUE) /\ op_done[2] = Done(2, FALSE)
    /\ Len(sent) = 1 /\ sent[1].item = 2 /\ sent[1].cmd = "PRIVMSG"
    /\ logged = {[who |-> "op", n |-> 1]}
    /\ db.resp.some /\ db.pc = "idle"

\* an image was fetched: no error, nothing sent
NonTextIgnored ==
    /\ Len(op_done) = 1 /\ op_done[1] = Done(1, FALSE)
    /\ sent = << >> /\ logged = {}
    /\ db.resp.some /\ db.resp.val.ct = Some(ImagePng) /\ db.pc = "idle"

\* ------------------------------------------------------------------------
\* SpecTitle: the truncation of a long title in op_handle_urltitle, on
\* titles given byte by byte
\* ------------------------------------------------------------------------

\* if title_c.len() > 400
TitleLimit == 400

\* let mut i = 396
CutFrom == 396

\* most characters of free width around the cut
MaxMid == 3

\* most one-byte characters after them
MaxPost == 6

\* byte k of the w bytes of character c of a string
Byte(c, k, w) == [c |-> c, k |-> k, w |-> w]

\* the UTF-8 encoding of a character is one to four bytes long
CharWidths == 1..4

\* the widths of the characters of a title: pre one-byte characters, the
\* characters of widths mid, post one-byte characters
TitleWidths(in) == [i \in 1..in.pre |-> 1] \o in.mid \o [i \in 1..in.post |-> 1]

RECURSIVE Encode(_, _)
\* the bytes of the characters of widths ws, the first of them numbered c
Encode(ws, c) ==
    IF ws = << >> THEN << >>
    ELSE [k \in 1..Head(ws) |-> Byte(c, k, Head(ws))] \o Encode(Tail(ws), c + 1)

\* the bytes of a title: the one-byte runs are built at once
TitleBytes(in) ==
    [i \in 1..in.pre |-> Byte(i, 1, 1)]
    \o Encode(in.mid, in.pre + 1)
    \o [i \in 1..in.post |-> Byte(in.pre + Len(in.mid) + i, 1, 1)]

TitleInputs ==
    { [fn |-> "title", pre |-> n, mid |-> m, post |-> p] :
        n \in (CutFrom - 3)..(CutFrom + 1),
        m \in SeqsUpTo(CharWidths, MaxMid),
        p \in 0..MaxPost }

\* str::is_char_boundary(i): 0 and len() are boundaries, an index past the
\* end is none, otherwise byte i (counted from 0) must start a character
IsCharBoundary(b, i) ==
    \/ i = 0
    \/ i = Len(b)
    \/ i < Len(b) /\ b[i + 1].k = 1

RECURSIVE BoundaryFrom(_, _)
\* loop { if title_c.is_char_boundary(i) { break; } i += 1; }
BoundaryFrom(b, i) == IF IsCharBoundary(b, i) THEN i ELSE BoundaryFrom(b, i + 1)

\* "..."
Dots == [j \in 1..3 |-> Byte(0, 1, 1)]

\* a truncation that splits at byte 396 wherever that falls
TruncateTitleAtCut(b) ==
    IF Len(b) > TitleLimit THEN SubSeq(b, 1, CutFrom) \o Dots ELSE b

\* op_handle_urltitle: title_c after the `if title_c.len() > 400` block
TruncateTitle(b) ==
    IF Len(b) > TitleLimit
    THEN SubSeq(b, 1, BoundaryFrom(b, CutFrom)) \o Dots
    ELSE b

TitleInit ==
    /\ url_pc = "in"
    /\ url_in \in TitleInputs
    /\ url_out = None
    /\ EngineIdle
    /\ AclIdle
    /\ MainIdle
    /\ RestIdle

TitleTruncate ==
    /\ url_pc = "in"
    /\ url_in.fn = "title"
    /\ url_out' = Some(TruncateTitle(TitleBytes(url_in)))
    /\ url_pc' = "done"
    /\ UNCHANGED <<url_in, engineVars, aclVars, mainVars, restVars>>

TitleNext == TitleTruncate

SpecTitle == TitleInit /\ [][TitleNext]_vars

\* the prefix p of a string ends with the last byte of a character
EndsOnChar(p) == p = << >> \/ p[Len(p)].k = p[Len(p)].w

\* C36: a title of at most 400 bytes stays as it is; a longer one becomes
\* its first i bytes and "...", where i is the least index from 396 at which
\* no character is split: i is between 396 and 399 and inside the title, so
\* the result is at most 402 bytes long
C36_TitleTruncation ==
    url_pc = "done" /\ url_in.fn = "title" =>
      LET b == TitleBytes(url_in)
          out == url_out.val
      IN /\ Len(b) <= TitleLimit => out = b
         /\ Len(b) > TitleLimit =>
              /\ Len(out) <= TitleLimit + 2
              /\ \E i \in CutFrom..(CutFrom + 3) :
                   /\ i < Len(b)
                   /\ out = SubSeq(b, 1, i) \o Dots
                   /\ EndsOnChar(SubSeq(b, 1, i))
                   /\ \A j \in CutFrom..(i - 1) : ~EndsOnChar(SubSeq(b, 1, j))

\* a four-byte character lies across byte 396: the cut moved to 399 and the
\* result is 402 bytes long
C36_Witness ==
    /\ url_pc = "done" /\ url_in.fn = "title"
    /\ Len(TitleBytes(url_in)) > TitleLimit
    /\ url_in.pre = CutFrom - 1
    /\ Len(url_in.mid) > 0 /\ url_in.mid[1] = 4
    /\ Len(url_out.val) = TitleLimit + 2
    /\ url_out.val[CutFrom + 3].k = 4

\* a title of exactly 400 bytes with multi-byte characters is not cut
TitleAtLimitKept ==
    /\ url_pc = "done" /\ url_in.fn = "title"
    /\ Len(TitleBytes(url_in)) = TitleLimit
    /\ \E i \in 1..Len(url_in.mid) : url_in.mid[i] > 1
    /\ url_out.val = TitleBytes(url_in)

\* ------------------------------------------------------------------------
\* SpecDrop: the two queue consumers when the IrcBot, and with it both
\* senders, is dropped
\* ------------------------------------------------------------------------

DropOps == { Op("Invite", <<Alice, ChanA>>), Op("UrlTitle", <<U1, ChanA>>) }

\* new_op while the IrcBot exists
DropNewOp ==
    /\ disp_pc # "dropped"
    /\ \E op \in DropOps : NewOp(op)

\* new_msg while the IrcBot exists
DropNewMsg ==
    /\ disp_pc # "dropped"
    /\ CallNewMsg

\* the last Arc<IrcBot> goes: op_sender and msg_sender are dropped, the
\* spawned consumers keep their receivers
BotDropped ==
    /\ disp_pc # "dropped"
    /\ disp_pc' = "dropped"
    /\ UNCHANGED <<botVars, opVars, msgVars, ev_n, ev, calls, sent, logged>>
    /\ UNCHANGED otherVars

\* a consumer that returns as soon as the senders are gone
OpEndAtDrop ==
    /\ op_pc = "recv"
    /\ disp_pc = "dropped"
    /\ op_pc' = "ended"
    /\ UNCHANGED <<botVars, msgVars, dispVars, sent, logged,
                   op_q, op_cur, op_timer, op_enq, op_done, op_idle>>
    /\ UNCHANGED otherVars

\* read_op_queue: rx.recv() yields None, once the channel is closed and
\* empty; the while let loop ends and the task returns
OpEnd ==
    /\ op_pc = "recv"
    /\ op_q = << >>
    /\ disp_pc = "dropped"
    /\ op_pc' = "ended"
    /\ UNCHANGED <<botVars, msgVars, dispVars, sent, logged,
                   op_q, op_cur, op_timer, op_enq, op_done, op_idle>>
    /\ UNCHANGED otherVars

\* read_msg_queue: the same
MsgEnd ==
    /\ msg_pc = "recv"
    /\ msg_q = << >>
    /\ disp_pc = "dropped"
    /\ msg_pc' = "ended"
    /\ UNCHANGED <<botVars, opVars, dispVars, sent, logged,
                   msg_q, msg_cur, msg_timer, msg_enq, msg_done, msg_idle>>
    /\ UNCHANGED otherVars

DropNext ==
    \/ DropNewOp
    \/ DropNewMsg
    \/ BotDropped
    \/ Consumers
    \/ OpEnd
    \/ MsgEnd

\* the runtime schedules every task that can run, and time passes
DropFairness ==
    /\ LiveFairness
    /\ WF_vars(OpEnd)
    /\ WF_vars(MsgEnd)

SpecDrop == Init /\ [][DropNext]_vars /\ DropFairness

\* items 1..n were executed, each once, in the order of their enqueuing
ExecutedInOrder(done, n) == Len(done) = n /\ \A i \in 1..n : done[i].id = i

\* both senders are gone
SendersDropped == disp_pc = "dropped"

\* both consumers have returned
ConsumersEnded == op_pc = "ended" /\ msg_pc = "ended"

\* a consumer that has returned has left nothing behind
NothingLeft ==
    /\ op_pc = "ended" => op_q = << >> /\ ExecutedInOrder(op_done, op_enq)
    /\ msg_pc = "ended" => msg_q = << >> /\ ExecutedInOrder(msg_done, msg_enq)

\* every execution is followed by the full sleep, also the last one
ThrottledToTheEnd ==
    /\ Len(op_done') > Len(op_done) => op_pc' = "sleep" /\ op_timer' = IRC_OP_THROTTLE
    /\ Len(msg_done') > Len(msg_done) => msg_pc' = "sleep" /\ msg_timer' = IRC_MSG_THROTTLE
    /\ op_pc = "sleep" /\ op_pc' # "sleep" => op_idle = IRC_OP_THROTTLE
    /\ msg_pc = "sleep" /\ msg_pc' # "sleep" => msg_idle = IRC_MSG_THROTTLE
    /\ op_pc' = "ended" => op_pc \in {"recv", "ended"}
    /\ msg_pc' = "ended" => msg_pc \in {"recv", "ended"}

\* C37: once every sender of a queue is dropped, its consumer executes all
\* that was enqueued, in order and with the throttle delay after each item,
\* and then returns: it leaves no item behind and it does not run forever
C37_DrainThenEnd ==
    /\ []NothingLeft
    /\ [][ThrottledToTheEnd]_vars
    /\ (SendersDropped ~> ConsumersEnded)

\* two ops and a message were executed and both consumers have returned
C37_Witness ==
    /\ SendersDropped
    /\ ConsumersEnded
    /\ Len(op_done) = 2 /\ Len(msg_done) = 1

\* the senders are gone while two ops wait behind one in execution
DroppedWithBacklog ==
    /\ SendersDropped
    /\ op_pc = "exec" /\ Len(op_q) = 2

\* ------------------------------------------------------------------------
\* C38: the privileged-sender map of bin/sjmb.rs (SpecMain)
\* ------------------------------------------------------------------------

\* the transport calls of the step
MainSentNow == SubSeq(sent', Len(sent) + 1, Len(sent'))

\* the text "say hi" sends
SaidText == << <<"h", "i">> >>

\* what only a privileged command does: NICK, a reply to the sender, the
\* text of "say", a new configuration
PrivilegedEffect ==
    \/ istate'.bot_cfg # istate.bot_cfg
    \/ \E i \in 1..Len(MainSentNow) :
         \/ MainSentNow[i].cmd = "NICK"
         \/ /\ MainSentNow[i].cmd = "PRIVMSG"
            /\ \/ MainSentNow[i].a[1] = istate'.msg_nick
               \/ MainSentNow[i].a[2] = SaidText

\* the installed map has "*" -> true and no entry of its own with true
\* for the sender of the event taken
OnlyStarCovers ==
    /\ ev_n' = ev_n + 1
    /\ MapGet(istate.bot_cfg.raw.privileged_nicks, Star) = Some(TRUE)
    /\ istate'.msg_nick # Star
    /\ MapGet(istate.bot_cfg.raw.privileged_nicks, istate'.msg_nick) # Some(TRUE)

C38_Body == OnlyStarCovers => ~PrivilegedEffect

\* C38: the privileged-sender map is looked up by the sender's nickname
\* alone: an entry "*" -> true makes no other sender privileged, so no
\* event of such a sender has the effect of a privileged command
C38_StarIsNoWildcardNick == [][C38_Body]_vars

\* under a map with "*" -> true and without an entry for Alice, the events
\* taken, the last of them Alice's, have sent nothing and changed nothing
C38_Witness ==
    /\ config = BotConfigNew(FileB).cfg
    /\ MapGet(config.raw.privileged_nicks, Star) = Some(TRUE)
    /\ ev_n = MaxEvents
    /\ istate.msg_nick = Alice
    /\ istate.bot_cfg = config
    /\ sent = << >>

\* ------------------------------------------------------------------------
\* SpecMode: the main loop of bin/sjmb.rs on mode requests, reloads and
\* joins, the event taken kept in ev
\* ------------------------------------------------------------------------

\* events taken from the stream in one behaviour
MaxModeEvents == 2

ModeTexts == { <<FileA.cmd_mode_o>>, <<FileA.cmd_mode_v>>, <<ReloadWord>> }

ModeCommands ==
    { Event(p, "PRIVMSG", <<Bot, t>>) : p \in {AlicePrefix, BobPrefix}, t \in ModeTexts }

\* the bot seen from a host that FileA's auto_o_acl matches
BotAtGPrefix == Some([nick |-> Bot, user |-> <<"b">>, host |-> <<"g">>])

ModeJoins ==
    { Event(p, "JOIN", <<ch>>) : p \in {AlicePrefix, BobPrefix, BotAtGPrefix},
                                 ch \in {ChanA, ChanB} }

\* the main loop takes event e, stores its sender and calls the handler
\* planned by p, while the transport rejects call number tx_fail
ModeRun(e, p, tx_fail) ==
    LET r == Attempt([err |-> p.res = "err", cmds |-> p.cmds], tx_fail) IN
      /\ main_pc = "loop" /\ ev_n < MaxModeEvents
      /\ istate' = [Taken(e) EXCEPT !.bot_cfg = p.cfg]
      /\ sent' = sent \o TxAll("main", ev_n + 1, r.sends)
      /\ logged' = IF r.err THEN logged \cup {[who |-> "main", n |-> ev_n + 1]} ELSE logged
      /\ ev_n' = ev_n + 1
      /\ ev' = [prefix |-> e.prefix, cmd |-> e.cmd, a |-> e.a, my_nick |-> istate.mynick]
      /\ UNCHANGED <<main_pc, botVars, opVars, msgVars, disp_pc, calls>>
      /\ UNCHANGED <<aclVars, urlVars, restVars>>

\* Command::PRIVMSG to the bot: handle_private_msg
ModeCommand ==
    \E e \in ModeCommands : \E file \in {FileA, FileB} : \E tx_fail \in 0..1 :
      /\ (Flatten(e.a[2]) # ReloadWord => file = FileA)
      /\ ModeRun(e, MainPrivateMsg(Taken(e), e.a[2], file), tx_fail)

\* Command::JOIN: handle_join
ModeJoin ==
    \E e \in ModeJoins : \E tx_fail \in 0..1 :
      /\ e.cmd = "JOIN"
      /\ ModeRun(e, MainHandleJoin(Taken(e), e.a[1]), tx_fail)

ModeNext == ModeCommand \/ ModeJoin

SpecMode == MainInit /\ [][ModeNext]_vars

\* the identity string of the sender of the event taken in this step
TakenUserHost == UserHost(ev'.prefix.val.user, ev'.prefix.val.host)

\* some rule of list acl matches the identity string
SomeRuleMatches(acl) == \E i \in 1..Len(acl) : IsMatch(acl[i], TakenUserHost)

\* the transport calls of this step are exactly cmds, or the transport
\* rejected the first of them and the loop logged the error
IssuedOnly(cmds) ==
    \/ /\ MainSentNow = TxAll("main", ev_n + 1, cmds)
       /\ logged' = logged
    \/ /\ cmds # << >>
       /\ MainSentNow = << >>
       /\ logged' = logged \cup {[who |-> "main", n |-> ev_n + 1]}

\* this step takes the request-operator command of the installed
\* configuration
OpRequested ==
    /\ ev_n' = ev_n + 1
    /\ ev'.cmd = "PRIVMSG"
    /\ Flatten(ev'.a[2]) = istate.bot_cfg.raw.cmd_mode_o

C39_Body ==
    OpRequested =>
      IF SomeRuleMatches(istate.bot_cfg.raw.mode_o_acl)
      THEN IssuedOnly(<< <<"MODE", istate.bot_cfg.raw.channel, "+o", ev'.prefix.val.nick>> >>)
      ELSE IssuedOnly(<< <<"MODE", istate.bot_cfg.raw.channel, "+v", ev'.prefix.val.nick>> >>)

\* C39: the request-operator command gives +o on the configured channel to
\* the sender if some rule of mode_o_acl of the installed configuration
\* matches user@host, and +v otherwise; one mode change is issued in either
\* case, for the sender's nickname, and no other command
C39_OpOnlyByAcl == [][C39_Body]_vars

\* after a reload to FileB by Alice, Bob, whom FileA's ACL would have
\* refused, asked for +o and got it on FileB's channel
C39_Witness ==
    /\ ev_n = 2
    /\ ev.cmd = "PRIVMSG" /\ ev.prefix = BobPrefix /\ Flatten(ev.a[2]) = FileB.cmd_mode_o
    /\ config = BotConfigNew(FileA).cfg
    /\ istate.bot_cfg = BotConfigNew(FileB).cfg
    /\ Len(sent) = 2
    /\ sent[2].cmd = "MODE" /\ sent[2].a = <<ChanB, "+o", Bob>>

\* Bob asked under FileA, whose ACL does not match b@g: voice
VoiceInstead ==
    /\ ev_n = 1
    /\ ev.cmd = "PRIVMSG" /\ ev.prefix = BobPrefix /\ Flatten(ev.a[2]) = FileA.cmd_mode_o
    /\ istate.bot_cfg = BotConfigNew(FileA).cfg
    /\ Len(sent) = 1
    /\ sent[1].cmd = "MODE" /\ sent[1].a = <<ChanA, "+v", Bob>>

\* this step takes a JOIN
Joined == ev_n' = ev_n + 1 /\ ev'.cmd = "JOIN"

C40_Body ==
    Joined =>
      IF /\ ev'.prefix.val.nick # istate.mynick
         /\ SomeRuleMatches(istate.bot_cfg.raw.auto_o_acl)
      THEN IssuedOnly(<< <<"MODE", ev'.a[1], "+o", ev'.prefix.val.nick>> >>)
      ELSE IssuedOnly(<< >>)

\* C40: on a JOIN, +o is given to the joining nickname on the joined
\* channel if and only if the joiner is not the bot and some rule of
\* auto_o_acl matches user@host; otherwise no command is issued
C40_AutoOpOnJoin == [][C40_Body]_vars

\* Bob, whom FileA's auto_o_acl matches, joined #b, which is not the
\* configured channel, and was given +o there
C40_Witness ==
    /\ ev_n = 1
    /\ ev.cmd = "JOIN" /\ ev.prefix = BobPrefix /\ ev.a = <<ChanB>>
    /\ istate.bot_cfg = BotConfigNew(FileA).cfg
    /\ sent = << Tx("main", 1, "MODE", <<ChanB, "+o", Bob>>) >>

\* the bot itself joined, from a host the ACL matches: nothing is sent
OwnJoinIgnored ==
    /\ ev_n = 1
    /\ ev.cmd = "JOIN" /\ ev.prefix = BotAtGPrefix
    /\ istate.bot_cfg = BotConfigNew(FileA).cfg
    /\ IsMatch(FileA.auto_o_acl[1], istate.userhost)
    /\ sent = << >> /\ logged = {}

====
